---------------------------- MODULE Spec2Model ----------------------------
(***************************************************************************)
(* A model of the quantization and dithering engine of image-to-pixel.js. *)
(*                                                                         *)
(* Numbers.  The pixel buffer (ImageData.data, a Uint8ClampedArray) holds  *)
(* bytes.  The error buffer (a Float32Array) and every intermediate colour *)
(* hold fractions; they are kept here as integers counted in units of      *)
(* 1/Scale, Scale a power of two, so that the sums and products of the     *)
(* source are exact.  The one rounding of the source that can occur for    *)
(* the buffers enumerated here, the store into the Float32Array, is Fround.*)
(* Squared distances do not fit TLC's integers and are kept as digit       *)
(* vectors (Wide numbers).                                                 *)
(***************************************************************************)
EXTENDS Integers, Sequences, FiniteSets, TLC

\* The largest number of pixels of an enumerated buffer.
MaxPixels == 4

\* The unit of fractional values is 1/Scale.  A value that reaches pixel k
\* of the raster went through at most k products by strength (halves) and by
\* a diffusion coefficient (sixteenths or eighths), so 32^(MaxPixels-1)
\* keeps every product exact; the ordered thresholds need 1/256.
Scale == 2 ^ (5 * (MaxPixels - 1))

Abs(v) == IF v < 0 THEN 0 - v ELSE v

\* The number NaN: an integer no value of a run reaches.  A sum, difference
\* or product with NaN is NaN, and a comparison with NaN is false.
NaN == 1 - 2 ^ 30 - 2 ^ 30

Plus(a, b) == IF a = NaN \/ b = NaN THEN NaN ELSE a + b

Minus(a, b) == IF a = NaN \/ b = NaN THEN NaN ELSE a - b

Times(a, b) == IF a = NaN \/ b = NaN THEN NaN ELSE a * b

\* v * num / den without forming v * num (v may be close to 2^31).
MulFrac(v, num, den) ==
    IF v = NaN THEN NaN
    ELSE (v \div den) * num + ((v % den) * num) \div den

\* JS indexes from 0, TLA+ sequences from 1.  An index past the end of a
\* typed array reads undefined, which every use below turns into NaN.
At(buf, idx) == IF idx < Len(buf) THEN buf[idx + 1] ELSE NaN

\* buf[idx] = v on a typed array: a store past the end is ignored.
Store(buf, idx, v) == IF idx < Len(buf) THEN [buf EXCEPT ![idx + 1] = v] ELSE buf

(***************************************************************************)
(* Wide numbers: a non-negative integer as the vector of its base-2^11     *)
(* digits, least significant first.                                        *)
(***************************************************************************)
Limb == 2 ^ 11

\* The square of d (|d| < 2^31) as unnormalised coefficients of Limb^0..4.
WSquare(d) ==
    LET m == Abs(d)
        c == m % Limb
        b == (m \div Limb) % Limb
        a == m \div (Limb * Limb)
    IN  << c * c, 2 * b * c, 2 * a * c + b * b, 2 * a * b, a * a, 0 >>

WAdd(u, v) ==
    << u[1] + v[1], u[2] + v[2], u[3] + v[3], u[4] + v[4], u[5] + v[5], u[6] + v[6] >>

\* The digits of the number with coefficients u: the carries propagated.
WNorm(u) ==
    LET t2 == u[2] + (u[1] \div Limb)
        t3 == u[3] + (t2 \div Limb)
        t4 == u[4] + (t3 \div Limb)
        t5 == u[5] + (t4 \div Limb)
        t6 == u[6] + (t5 \div Limb)
    IN  << u[1] % Limb, t2 % Limb, t3 % Limb, t4 % Limb, t5 % Limb, t6 >>

\* The wide NaN.
WNaN == << NaN, NaN, NaN, NaN, NaN, NaN >>

\* u < v for normalised wide numbers.
WLess(u, v) ==
    /\ u # WNaN
    /\ v # WNaN
    /\ \E k \in 1..6 : u[k] < v[k] /\ \A j \in (k + 1)..6 : u[j] = v[j]

(***************************************************************************)
(* Stores.                                                                 *)
(***************************************************************************)
RECURSIVE BitLen(_)
BitLen(m) == IF m = 0 THEN 0 ELSE 1 + BitLen(m \div 2)

\* Float32Array store: round to 24 significant bits, ties to even.
Fround(v) ==
    LET m == Abs(v)
        n == BitLen(m)
    IN  IF v = NaN \/ n <= 24 THEN v
        ELSE LET unit == 2 ^ (n - 24)
                 q == m \div unit
                 rem == m % unit
                 up == rem * 2 > unit \/ (rem * 2 = unit /\ q % 2 = 1)
                 r == (IF up THEN q + 1 ELSE q) * unit
             IN  IF v < 0 THEN 0 - r ELSE r

\* Uint8ClampedArray store of an integer; NaN is stored as 0.
ToUint8Clamped(v) == IF v = NaN \/ v < 0 THEN 0 ELSE IF v > 255 THEN 255 ELSE v

(***************************************************************************)
(* ColorMath.  Colours are triples in units of 1/Scale.                    *)
(***************************************************************************)
colorDistance(color1, color2) ==
    LET rDiff == Minus(color1[1], color2[1])
        gDiff == Minus(color1[2], color2[2])
        bDiff == Minus(color1[3], color2[3])
    IN  IF rDiff = NaN \/ gDiff = NaN \/ bDiff = NaN THEN WNaN
        ELSE WNorm(WAdd(WAdd(WSquare(rDiff), WSquare(gDiff)), WSquare(bDiff)))

\* A palette entry (bytes) as a colour in units of 1/Scale.
Scaled(c) == << c[1] * Scale, c[2] * Scale, c[3] * Scale >>

\* The loop of findClosestPaletteColor from index i on, `closest` being the
\* index of closestColor.  palette is 1-based here: palette[i + 1] is the
\* source's palette[i].
RECURSIVE ClosestFrom(_, _, _, _, _)
ClosestFrom(color, palette, i, closest, closestDistance) ==
    IF i >= Len(palette) THEN closest
    ELSE LET currentDistance == colorDistance(color, Scaled(palette[i + 1]))
         IN  IF WLess(currentDistance, closestDistance)
             THEN ClosestFrom(color, palette, i + 1, i, currentDistance)
             ELSE ClosestFrom(color, palette, i + 1, closest, closestDistance)

\* Variants of the search, as a slip in its comparison would make it: `<=`
\* for `<` (the last of several nearest entries wins), and `>` for `<`.
RECURSIVE LastClosestFrom(_, _, _, _, _)
LastClosestFrom(color, palette, i, closest, closestDistance) ==
    IF i >= Len(palette) THEN closest
    ELSE LET currentDistance == colorDistance(color, Scaled(palette[i + 1]))
         IN  IF ~ WLess(closestDistance, currentDistance)
             THEN LastClosestFrom(color, palette, i + 1, i, currentDistance)
             ELSE LastClosestFrom(color, palette, i + 1, closest, closestDistance)

findLastClosestIndex(color, palette) ==
    LastClosestFrom(color, palette, 1, 0, colorDistance(color, Scaled(palette[1])))

RECURSIVE FarthestFrom(_, _, _, _, _)
FarthestFrom(color, palette, i, closest, closestDistance) ==
    IF i >= Len(palette) THEN closest
    ELSE LET currentDistance == colorDistance(color, Scaled(palette[i + 1]))
         IN  IF WLess(closestDistance, currentDistance)
             THEN FarthestFrom(color, palette, i + 1, i, currentDistance)
             ELSE FarthestFrom(color, palette, i + 1, closest, closestDistance)

findFarthestIndex(color, palette) ==
    FarthestFrom(color, palette, 1, 0, colorDistance(color, Scaled(palette[1])))

\* The index in the palette of the colour findClosestPaletteColor returns.
findClosestIndex(color, palette) ==
    ClosestFrom(color, palette, 1, 0, colorDistance(color, Scaled(palette[1])))

findClosestPaletteColor(color, palette) ==
    palette[findClosestIndex(color, palette) + 1]

\* palette[0] is undefined for an empty palette, and colorDistance reads
\* its [0]: a TypeError.
ClosestThrows(palette) == Len(palette) = 0

(***************************************************************************)
(* DitherMatrix.                                                           *)
(***************************************************************************)
\* Variants of getBayerMatrix, as a slip in typing its 2x2 table would make
\* it: the table transposed, and a value repeated.
OtherMatrices(type) ==
    CASE type = "4x4" ->
           << << 0, 8, 2, 10 >>,
              << 12, 4, 14, 6 >>,
              << 3, 11, 1, 9 >>,
              << 15, 7, 13, 5 >> >>
      [] type = "8x8" ->
           << << 0, 48, 12, 60, 3, 51, 15, 63 >>,
              << 32, 16, 44, 28, 35, 19, 47, 31 >>,
              << 8, 56, 4, 52, 11, 59, 7, 55 >>,
              << 40, 24, 36, 20, 43, 27, 39, 23 >>,
              << 2, 50, 14, 62, 1, 49, 13, 61 >>,
              << 34, 18, 46, 30, 33, 17, 45, 29 >>,
              << 10, 58, 6, 54, 9, 57, 5, 53 >>,
              << 42, 26, 38, 22, 41, 25, 37, 21 >> >>
      [] type = "clustered 4x4" ->
           << << 7, 13, 11, 4 >>,
              << 12, 16, 14, 8 >>,
              << 10, 15, 6, 2 >>,
              << 5, 9, 3, 1 >> >>

getBayerMatrixTransposed(type) ==
    IF type = "2x2" THEN << << 0, 3 >>, << 2, 1 >> >> ELSE OtherMatrices(type)

getBayerMatrixRepeated(type) ==
    IF type = "2x2" THEN << << 0, 2 >>, << 3, 3 >> >> ELSE OtherMatrices(type)

getBayerMatrix(type) ==
    CASE type = "2x2" ->
           << << 0, 2 >>,
              << 3, 1 >> >>
      [] type = "4x4" ->
           << << 0, 8, 2, 10 >>,
              << 12, 4, 14, 6 >>,
              << 3, 11, 1, 9 >>,
              << 15, 7, 13, 5 >> >>
      [] type = "8x8" ->
           << << 0, 48, 12, 60, 3, 51, 15, 63 >>,
              << 32, 16, 44, 28, 35, 19, 47, 31 >>,
              << 8, 56, 4, 52, 11, 59, 7, 55 >>,
              << 40, 24, 36, 20, 43, 27, 39, 23 >>,
              << 2, 50, 14, 62, 1, 49, 13, 61 >>,
              << 34, 18, 46, 30, 33, 17, 45, 29 >>,
              << 10, 58, 6, 54, 9, 57, 5, 53 >>,
              << 42, 26, 38, 22, 41, 25, 37, 21 >> >>
      [] type = "clustered 4x4" ->
           << << 7, 13, 11, 4 >>,
              << 12, 16, 14, 8 >>,
              << 10, 15, 6, 2 >>,
              << 5, 9, 3, 1 >> >>

\* DitheringCoefficients.ORDERED_THRESHOLD_CENTER, 127.5, in units of 1/Scale.
ORDERED_THRESHOLD_CENTER == (255 * Scale) \div 2

\* DitheringCoefficients.FLOYD_STEINBERG and ATKINSON, as <<numerator, denominator>>.
FS_RIGHT == << 7, 16 >>
FS_BOTTOM_LEFT == << 3, 16 >>
FS_BOTTOM == << 5, 16 >>
FS_BOTTOM_RIGHT == << 1, 16 >>
ATKINSON_COEFFICIENT == << 1, 8 >>

(***************************************************************************)
(* The body of each loop, as a function of the buffers.  strength is       *)
(* counted in halves (0, 1, 2 for 0, 0.5, 1).                              *)
(***************************************************************************)
\* Variant: the red value stored in all three channels.
WriteRGBRedOnly(data, idx, newColor) ==
    Store(Store(Store(data, idx, ToUint8Clamped(newColor[1])),
                idx + 1, ToUint8Clamped(newColor[1])),
          idx + 2, ToUint8Clamped(newColor[1]))

\* data with the RGB of the pixel at byte index idx set to newColor.
WriteRGB(data, idx, newColor) ==
    Store(Store(Store(data, idx, ToUint8Clamped(newColor[1])),
                idx + 1, ToUint8Clamped(newColor[2])),
          idx + 2, ToUint8Clamped(newColor[3]))

\* Variant: the colour quantized is that of the previous pixel.
ApplyPaletteAtPrevious(data, i, paletteColors) ==
    LET j == IF i >= 4 THEN i - 4 ELSE i
        color == << Times(At(data, j), Scale), Times(At(data, j + 1), Scale),
                    Times(At(data, j + 2), Scale) >>
    IN  WriteRGB(data, i, findClosestPaletteColor(color, paletteColors))

\* One iteration of applyPalette's loop, at byte index i.
ApplyPaletteAt(data, i, paletteColors) ==
    LET color == << Times(At(data, i), Scale), Times(At(data, i + 1), Scale),
                    Times(At(data, i + 2), Scale) >>
    IN  WriteRGB(data, i, findClosestPaletteColor(color, paletteColors))

RECURSIVE ApplyPaletteFrom(_, _, _)
ApplyPaletteFrom(data, i, paletteColors) ==
    IF i >= Len(data) THEN data
    ELSE ApplyPaletteFrom(ApplyPaletteAt(data, i, paletteColors), i + 4,
                          paletteColors)

\* applyPalette on a non-empty palette: the buffer it leaves.
applyPalette(data, paletteColors) == ApplyPaletteFrom(data, 0, paletteColors)

\* buffer[idx] += v on the Float32Array.
AddTo(buffer, idx, v) ==
    IF idx < Len(buffer) THEN [buffer EXCEPT ![idx + 1] = Fround(Plus(@, v))]
    ELSE buffer

\* Variant: the error is added to all four channels of the target.
distributeErrorRGBA(buffer, x, y, quantError, factor, width, height) ==
    IF x < 0 \/ x >= width \/ y < 0 \/ y >= height THEN buffer
    ELSE LET idx == (y * width + x) * 4
         IN  AddTo(AddTo(AddTo(AddTo(buffer, idx,
                                     MulFrac(quantError[1], factor[1], factor[2])),
                               idx + 1, MulFrac(quantError[2], factor[1], factor[2])),
                         idx + 2, MulFrac(quantError[3], factor[1], factor[2])),
                   idx + 3, MulFrac(quantError[3], factor[1], factor[2]))

\* Variant: no test of the target's coordinates; a store outside the
\* typed array is ignored.
distributeErrorUnchecked(buffer, x, y, quantError, factor, width, height) ==
    LET idx == (y * width + x) * 4
    IN  IF idx < 0 THEN buffer
        ELSE AddTo(AddTo(AddTo(buffer, idx,
                               MulFrac(quantError[1], factor[1], factor[2])),
                         idx + 1, MulFrac(quantError[2], factor[1], factor[2])),
                   idx + 2, MulFrac(quantError[3], factor[1], factor[2]))

distributeError(buffer, x, y, quantError, factor, width, height) ==
    IF x < 0 \/ x >= width \/ y < 0 \/ y >= height THEN buffer
    ELSE LET idx == (y * width + x) * 4
         IN  AddTo(AddTo(AddTo(buffer, idx,
                               MulFrac(quantError[1], factor[1], factor[2])),
                         idx + 1, MulFrac(quantError[2], factor[1], factor[2])),
                   idx + 2, MulFrac(quantError[3], factor[1], factor[2]))

\* The colour read at (x, y): the buffer's value plus the accumulated error.
Observed(data, errorBuffer, idx) ==
    << Plus(Times(At(data, idx), Scale), At(errorBuffer, idx)),
       Plus(Times(At(data, idx + 1), Scale), At(errorBuffer, idx + 1)),
       Plus(Times(At(data, idx + 2), Scale), At(errorBuffer, idx + 2)) >>

\* Variants: the strength left out, and the strength applied to the
\* quantized colour alone (r - newColor * strength).
QuantErrorUnscaled(oldColor, newColor, strength) ==
    << Minus(oldColor[1], newColor[1] * Scale),
       Minus(oldColor[2], newColor[2] * Scale),
       Minus(oldColor[3], newColor[3] * Scale) >>

QuantErrorMisplaced(oldColor, newColor, strength) ==
    << Minus(oldColor[1], MulFrac(newColor[1] * Scale, strength, 2)),
       Minus(oldColor[2], MulFrac(newColor[2] * Scale, strength, 2)),
       Minus(oldColor[3], MulFrac(newColor[3] * Scale, strength, 2)) >>

QuantError(oldColor, newColor, strength) ==
    << MulFrac(Minus(oldColor[1], newColor[1] * Scale), strength, 2),
       MulFrac(Minus(oldColor[2], newColor[2] * Scale), strength, 2),
       MulFrac(Minus(oldColor[3], newColor[3] * Scale), strength, 2) >>

\* Variant: the pattern mirrored, its 7/16 going to the pixel on the left.
FloydSteinbergSpreadMirrored(errorBuffer, x, y, quantError, width, height) ==
    LET b1 == distributeError(errorBuffer, x - 1, y, quantError, FS_RIGHT, width, height)
        b2 == distributeError(b1, x + 1, y + 1, quantError, FS_BOTTOM_LEFT, width, height)
        b3 == distributeError(b2, x, y + 1, quantError, FS_BOTTOM, width, height)
    IN  distributeError(b3, x - 1, y + 1, quantError, FS_BOTTOM_RIGHT, width, height)

\* Variant: the coefficients of the two lower-left targets exchanged.
FloydSteinbergSpreadSwapped(errorBuffer, x, y, quantError, width, height) ==
    LET b1 == distributeError(errorBuffer, x + 1, y, quantError, FS_RIGHT, width, height)
        b2 == distributeError(b1, x - 1, y + 1, quantError, FS_BOTTOM, width, height)
        b3 == distributeError(b2, x, y + 1, quantError, FS_BOTTOM_LEFT, width, height)
    IN  distributeError(b3, x + 1, y + 1, quantError, FS_BOTTOM_RIGHT, width, height)

\* The error buffer after floydSteinbergDithering's four distributeError calls.
FloydSteinbergSpread(errorBuffer, x, y, quantError, width, height) ==
    LET b1 == distributeError(errorBuffer, x + 1, y, quantError, FS_RIGHT, width, height)
        b2 == distributeError(b1, x - 1, y + 1, quantError, FS_BOTTOM_LEFT, width, height)
        b3 == distributeError(b2, x, y + 1, quantError, FS_BOTTOM, width, height)
    IN  distributeError(b3, x + 1, y + 1, quantError, FS_BOTTOM_RIGHT, width, height)

\* Variant: the call for (x, y + 2) left out.
AtkinsonSpreadFive(errorBuffer, x, y, quantError, width, height) ==
    LET b1 == distributeError(errorBuffer, x + 1, y, quantError, ATKINSON_COEFFICIENT, width, height)
        b2 == distributeError(b1, x + 2, y, quantError, ATKINSON_COEFFICIENT, width, height)
        b3 == distributeError(b2, x - 1, y + 1, quantError, ATKINSON_COEFFICIENT, width, height)
        b4 == distributeError(b3, x, y + 1, quantError, ATKINSON_COEFFICIENT, width, height)
    IN  distributeError(b4, x + 1, y + 1, quantError, ATKINSON_COEFFICIENT, width, height)

\* The error buffer after atkinsonDithering's six distributeError calls.
AtkinsonSpread(errorBuffer, x, y, quantError, width, height) ==
    LET b1 == distributeError(errorBuffer, x + 1, y, quantError, ATKINSON_COEFFICIENT, width, height)
        b2 == distributeError(b1, x + 2, y, quantError, ATKINSON_COEFFICIENT, width, height)
        b3 == distributeError(b2, x - 1, y + 1, quantError, ATKINSON_COEFFICIENT, width, height)
        b4 == distributeError(b3, x, y + 1, quantError, ATKINSON_COEFFICIENT, width, height)
        b5 == distributeError(b4, x + 1, y + 1, quantError, ATKINSON_COEFFICIENT, width, height)
    IN  distributeError(b5, x, y + 2, quantError, ATKINSON_COEFFICIENT, width, height)

\* One iteration of floydSteinbergDithering's inner loop: the two buffers after it.
FloydSteinbergAt(st, x, y, width, height, strength, paletteColors) ==
    LET idx == (y * width + x) * 4
        oldColor == Observed(st.data, st.errorBuffer, idx)
        newColor == findClosestPaletteColor(oldColor, paletteColors)
        quantError == QuantError(oldColor, newColor, strength)
    IN  [data |-> WriteRGB(st.data, idx, newColor),
         errorBuffer |-> FloydSteinbergSpread(st.errorBuffer, x, y, quantError, width, height)]

\* One iteration of atkinsonDithering's inner loop.
AtkinsonAt(st, x, y, width, height, strength, paletteColors) ==
    LET idx == (y * width + x) * 4
        oldColor == Observed(st.data, st.errorBuffer, idx)
        newColor == findClosestPaletteColor(oldColor, paletteColors)
        quantError == QuantError(oldColor, newColor, strength)
    IN  [data |-> WriteRGB(st.data, idx, newColor),
         errorBuffer |-> AtkinsonSpread(st.errorBuffer, x, y, quantError, width, height)]

\* Variant: the matrix read at [x % matrixSize][y % matrixSize].
ThresholdTransposed(bayerMatrix, x, y) ==
    LET matrixSize == Len(bayerMatrix)
        m == bayerMatrix[(x % matrixSize) + 1][(y % matrixSize) + 1]
    IN  MulFrac((2 * m + 1) * 255, Scale, 2 * matrixSize * matrixSize)

\* The threshold of orderedDithering at (x, y), in units of 1/Scale:
\* ((m + 0.5) / (matrixSize * matrixSize)) * 255.
Threshold(bayerMatrix, x, y) ==
    LET matrixSize == Len(bayerMatrix)
        m == bayerMatrix[(y % matrixSize) + 1][(x % matrixSize) + 1]
    IN  MulFrac((2 * m + 1) * 255, Scale, 2 * matrixSize * matrixSize)

\* One iteration of orderedDithering's inner loop.
\* adjustedColor of orderedDithering at (x, y).
AdjustedColor(data, x, y, width, strength, bayerMatrix) ==
    LET idx == (y * width + x) * 4
        shift == MulFrac(Threshold(bayerMatrix, x, y) - ORDERED_THRESHOLD_CENTER,
                         strength, 2)
    IN  << Plus(Times(At(data, idx), Scale), shift),
           Plus(Times(At(data, idx + 1), Scale), shift),
           Plus(Times(At(data, idx + 2), Scale), shift) >>

\* Variant: the colour adjusted is read from the pixel before (x, y).
OrderedAtPrevious(data, x, y, width, strength, paletteColors, bayerMatrix) ==
    LET idx == (y * width + x) * 4
        from == IF idx >= 4 THEN idx - 4 ELSE idx
        shift == MulFrac(Threshold(bayerMatrix, x, y) - ORDERED_THRESHOLD_CENTER,
                         strength, 2)
    IN  WriteRGB(data, idx,
                 findClosestPaletteColor(
                     << Plus(Times(At(data, from), Scale), shift),
                        Plus(Times(At(data, from + 1), Scale), shift),
                        Plus(Times(At(data, from + 2), Scale), shift) >>,
                     paletteColors))

OrderedAt(data, x, y, width, strength, paletteColors, bayerMatrix) ==
    WriteRGB(data, (y * width + x) * 4,
             findClosestPaletteColor(
                 AdjustedColor(data, x, y, width, strength, bayerMatrix),
                 paletteColors))

(***************************************************************************)
(* Whole runs, as functions: the loop bodies applied in a given order of   *)
(* the pixels.  RowMajor is the order of the source's loops.               *)
(***************************************************************************)
RowMajor(width, height) ==
    [k \in 1..(width * height) |-> << (k - 1) % width, (k - 1) \div width >>]

\* The same columns left to right, the rows from the bottom one up.
RowsReversed(width, height) ==
    [k \in 1..(width * height) |->
        << (k - 1) % width, height - 1 - ((k - 1) \div width) >>]

DiffusionAt(method, st, x, y, width, height, strength, paletteColors) ==
    IF method = "floyd-steinberg"
    THEN FloydSteinbergAt(st, x, y, width, height, strength, paletteColors)
    ELSE AtkinsonAt(st, x, y, width, height, strength, paletteColors)

RECURSIVE DiffuseFrom(_, _, _, _, _, _, _, _)
DiffuseFrom(method, st, order, k, width, height, strength, paletteColors) ==
    IF k > Len(order) THEN st
    ELSE DiffuseFrom(method,
                     DiffusionAt(method, st, order[k][1], order[k][2], width,
                                 height, strength, paletteColors),
                     order, k + 1, width, height, strength, paletteColors)

\* new Float32Array(data.length)
ZeroBuffer(n) == [k \in 1..n |-> 0]

\* The buffer a diffusion ditherer leaves when it visits the pixels in `order`.
DiffuseInOrder(method, imageData, order, width, height, strength, paletteColors) ==
    DiffuseFrom(method,
                [data |-> imageData, errorBuffer |-> ZeroBuffer(Len(imageData))],
                order, 1, width, height, strength, paletteColors).data

RECURSIVE OrderedFrom(_, _, _, _, _, _, _)
OrderedFrom(imageData, order, k, width, strength, paletteColors, bayerMatrix) ==
    IF k > Len(order) THEN imageData
    ELSE OrderedFrom(OrderedAt(imageData, order[k][1], order[k][2], width,
                               strength, paletteColors, bayerMatrix),
                     order, k + 1, width, strength, paletteColors, bayerMatrix)

\* orderedDithering on a non-empty palette: the buffer it returns.
orderedDithering(imageData, width, height, strength, paletteColors, bayerMatrix) ==
    OrderedFrom(imageData, RowMajor(width, height), 1, width, strength,
                paletteColors, bayerMatrix)

(***************************************************************************)
(* pixelate: its constants and the pure parts of its stages.  A string the *)
(* code inspects character by character (a dither name, a hex colour) is a *)
(* tuple of one-character strings.                                         *)
(***************************************************************************)
\* PixelationConstants.
MIN_PIXEL_WIDTH == 2
MAX_PIXEL_WIDTH == 4096

UpperCase ==
    << "A", "B", "C", "D", "E", "F", "G", "H", "I", "J", "K", "L", "M",
       "N", "O", "P", "Q", "R", "S", "T", "U", "V", "W", "X", "Y", "Z" >>

LowerCase ==
    << "a", "b", "c", "d", "e", "f", "g", "h", "i", "j", "k", "l", "m",
       "n", "o", "p", "q", "r", "s", "t", "u", "v", "w", "x", "y", "z" >>

\* The position of character c in the tuple chars, 0 when it is not there.
IndexOf(chars, c) ==
    IF \E k \in 1..Len(chars) : chars[k] = c
    THEN CHOOSE k \in 1..Len(chars) : chars[k] = c
    ELSE 0

\* String.prototype.toLowerCase.
toLowerCase(str) ==
    [k \in 1..Len(str) |->
        IF IndexOf(UpperCase, str[k]) = 0 THEN str[k]
        ELSE LowerCase[IndexOf(UpperCase, str[k])]]

\* The names pixelate compares the lower-cased dither option with.
NONE == << "n", "o", "n", "e" >>
FLOYD_STEINBERG ==
    << "f", "l", "o", "y", "d", "-", "s", "t", "e", "i", "n", "b", "e", "r", "g" >>
ORDERED == << "o", "r", "d", "e", "r", "e", "d" >>
BAYER_4X4 == << "4", "x", "4", " ", "b", "a", "y", "e", "r" >>
BAYER_2X2 == << "2", "x", "2", " ", "b", "a", "y", "e", "r" >>
CLUSTERED_4X4 == << "c", "l", "u", "s", "t", "e", "r", "e", "d", " ", "4", "x", "4" >>
ATKINSON == << "a", "t", "k", "i", "n", "s", "o", "n" >>

\* Variant: 'ordered' is given the 4x4 matrix and '4x4 bayer' the 8x8 one.
DispatchSwapped(dither) ==
    LET name == toLowerCase(dither)
    IN  IF name = NONE THEN [method |-> "none", matrixType |-> "8x8"]
        ELSE IF name = FLOYD_STEINBERG
        THEN [method |-> "floyd-steinberg", matrixType |-> "8x8"]
        ELSE IF name = ORDERED THEN [method |-> "ordered", matrixType |-> "4x4"]
        ELSE IF name = BAYER_4X4 THEN [method |-> "ordered", matrixType |-> "8x8"]
        ELSE IF name = BAYER_2X2 THEN [method |-> "ordered", matrixType |-> "2x2"]
        ELSE IF name = CLUSTERED_4X4
        THEN [method |-> "ordered", matrixType |-> "clustered 4x4"]
        ELSE IF name = ATKINSON THEN [method |-> "atkinson", matrixType |-> "8x8"]
        ELSE [method |-> "throw", matrixType |-> "8x8"]

\* The if-chain of pixelate on a palette that is not null: the function
\* called and the matrix it is given, "throw" for the final else.
Dispatch(dither) ==
    LET name == toLowerCase(dither)
    IN  IF name = NONE THEN [method |-> "none", matrixType |-> "8x8"]
        ELSE IF name = FLOYD_STEINBERG
        THEN [method |-> "floyd-steinberg", matrixType |-> "8x8"]
        ELSE IF name = ORDERED THEN [method |-> "ordered", matrixType |-> "8x8"]
        ELSE IF name = BAYER_4X4 THEN [method |-> "ordered", matrixType |-> "4x4"]
        ELSE IF name = BAYER_2X2 THEN [method |-> "ordered", matrixType |-> "2x2"]
        ELSE IF name = CLUSTERED_4X4
        THEN [method |-> "ordered", matrixType |-> "clustered 4x4"]
        ELSE IF name = ATKINSON THEN [method |-> "atkinson", matrixType |-> "8x8"]
        ELSE [method |-> "throw", matrixType |-> "8x8"]

HexDigits ==
    << "0", "1", "2", "3", "4", "5", "6", "7", "8", "9", "a", "b", "c", "d", "e", "f" >>

\* hex.replace('#', ''): the first '#' removed.
RemoveHash(hex) ==
    LET k == IndexOf(hex, "#")
    IN  IF k = 0 THEN hex ELSE SubSeq(hex, 1, k - 1) \o SubSeq(hex, k + 1, Len(hex))

\* parseInt(str, 16) from position k on, acc being the value of the digits
\* read: it stops at the first character that is no hex digit, and a string
\* without leading digit gives NaN.
RECURSIVE ParseHexFrom(_, _, _)
ParseHexFrom(str, k, acc) ==
    IF k > Len(str) \/ IndexOf(HexDigits, toLowerCase(<< str[k] >>)[1]) = 0
    THEN (IF k = 1 THEN NaN ELSE acc)
    ELSE ParseHexFrom(str, k + 1,
                      acc * Len(HexDigits)
                          + IndexOf(HexDigits, toLowerCase(<< str[k] >>)[1]) - 1)

\* v >> shift & 255 (NaN converts to 0).
ByteAt(v, shift) == IF v = NaN THEN 0 ELSE (v \div (2 ^ shift)) % 256

hexToRgb(hex) ==
    LET bigint == ParseHexFrom(RemoveHash(hex), 1, 0)
    IN  << ByteAt(bigint, 16), ByteAt(bigint, 8), ByteAt(bigint, 0) >>

\* Math.round(pixelsWide * (height / width)) for positive integers: the
\* nearest integer, a half rounded up.
PixelsHigh(pixelsWide, srcWidth, srcHeight) ==
    (2 * pixelsWide * srcHeight + srcWidth) \div (2 * srcWidth)

\* strength / 100, counted in halves.
DitheringStrength(strength) == (2 * strength) \div 100

(***************************************************************************)
(* The enumerated calls.                                                   *)
(***************************************************************************)
\* RGBA values of a pixel.
PixelChoices ==
    { << 200, 100, 50, 255 >>, << 100, 100, 100, 0 >>, << 120, 120, 120, 128 >> }

Palettes ==
    { << >>,
      << << 0, 0, 0 >>, << 255, 255, 255 >> >>,
      << << 200, 200, 200 >>, << 0, 0, 0 >>, << 200, 200, 200 >> >>,
      << << 255, 128, 0 >>, << 100, 100, 100 >> >> }

\* Strength in halves: 0, 0.5 and 1.
Strengths == { 0, 1, 2 }

MatrixTypes == { "2x2", "4x4", "8x8", "clustered 4x4" }

Dims == { d \in (1..MaxPixels) \X (1..MaxPixels) : d[1] * d[2] <= MaxPixels }

\* The RGBA buffer of the pixels px[1], ..., px[n] in raster order.
Flatten(px) ==
    [j \in 1..(4 * Len(px)) |-> px[((j - 1) \div 4) + 1][((j - 1) % 4) + 1]]

VARIABLES
    method,        \* "none" (applyPalette), "floyd-steinberg", "atkinson", "ordered"
    matrixType,    \* the matrix of an ordered run
    width, height, strength, paletteColors,
    input,         \* imageData.data when the function was called
    data,          \* imageData.data
    errorBuffer,   \* the Float32Array of a diffusion run, << >> before it exists
    i,             \* applyPalette's loop variable
    x, y,          \* the ditherers' loop variables
    visited,       \* the pixels processed, when the order is left open
    pc,            \* "loop", "returned" or "threw"; "idle" outside a call
    thrown,        \* the error thrown, "none" when none
    \* pixelate: its argument, its position and its locals.
    options,
    stage,         \* "idle" when the functions above are called directly
    originalImageObject,
    pixelatePalette,   \* the local paletteColors of pixelate
    offscreenCanvas,
    pixelatedData,
    finalCanvas,
    result,        \* the canvas returned
    cachedPalette, \* the module's palette cache
    calls          \* the pixelate calls in progress side by side, << >> when none

\* The variables of pixelate.
pipeline == << options, stage, originalImageObject, pixelatePalette, offscreenCanvas,
               pixelatedData, finalCanvas, result, cachedPalette >>

vars == << method, matrixType, width, height, strength, paletteColors, input,
           data, errorBuffer, i, x, y, visited, pc, thrown, pipeline, calls >>

\* What a running applyPalette or ditherer leaves alone.
params == << method, matrixType, width, height, strength, paletteColors, input,
             pipeline, calls >>

\* Values of pixelate's variables that stand for "not there".
NoImage == [kind |-> "undefined", width |-> 0, height |-> 0, data |-> << >>]
NoOffscreen == [isOriginal |-> FALSE, width |-> 0, height |-> 0, data |-> << >>]
NoCanvas == [width |-> 0, height |-> 0, data |-> << >>]
NoResult == [canvas |-> "none", width |-> 0, height |-> 0]
NoPalette == [isNull |-> TRUE, colors |-> << >>]
NoOption == [kind |-> "null", hex |-> << >>, name |-> ""]
EmptyCache == [name |-> "", colors |-> << >>]

\* No pixelate is running.
NoPipeline ==
    /\ options = [image |-> NoImage, width |-> 0, dither |-> NONE, strength |-> 0,
                  palette |-> NoOption, resolution |-> "original"]
    /\ stage = "idle"
    /\ originalImageObject = NoImage
    /\ pixelatePalette = NoPalette
    /\ offscreenCanvas = NoOffscreen
    /\ pixelatedData = NoCanvas
    /\ finalCanvas = NoCanvas
    /\ result = NoResult
    /\ cachedPalette = EmptyCache

Start(m, mt, w, h, s, pal, buf) ==
    /\ NoPipeline
    /\ calls = << >>
    /\ method = m
    /\ matrixType = mt
    /\ width = w
    /\ height = h
    /\ strength = s
    /\ paletteColors = pal
    /\ input = buf
    /\ data = buf
    /\ errorBuffer = IF m \in { "floyd-steinberg", "atkinson" }
                     THEN ZeroBuffer(Len(buf)) ELSE << >>
    /\ i = 0
    /\ x = 0
    /\ y = 0
    /\ visited = { }
    /\ pc = "loop"
    /\ thrown = "none"

\* The calls with a strength and, for ordered, a matrix: applyPalette takes neither.
Calls ==
    { c \in { "none", "floyd-steinberg", "atkinson", "ordered" } \X MatrixTypes \X Strengths :
        /\ (c[1] = "none" => c[3] = 0)
        /\ (c[1] # "ordered" => c[2] = "8x8") }

\* Every buffer of at most MaxPixels pixels with pixels from `choices`, under
\* every method.
InitWith(choices) ==
    \E d \in Dims, c \in Calls, pal \in Palettes :
        \E px \in [1..(d[1] * d[2]) -> choices] :
            Start(c[1], c[2], d[1], d[2], c[3], pal, Flatten(px))

InitSmall == InitWith(PixelChoices)

\* The uniform 4x4 buffer of (200,100,50,255), under the methods that keep no
\* error buffer.
InitUniform ==
    \E c \in Calls, pal \in Palettes :
        /\ c[1] \in { "none", "ordered" }
        /\ Start(c[1], c[2], 4, 4, c[3], pal,
                 Flatten([k \in 1..16 |-> << 200, 100, 50, 255 >>]))

Init == InitSmall \/ InitUniform

(***************************************************************************)
(* The loops.  A call with an empty palette throws in its first iteration, *)
(* inside findClosestPaletteColor, before it writes anything.              *)
(***************************************************************************)
Throw(e) ==
    /\ pc' = "threw"
    /\ thrown' = e
    /\ UNCHANGED << params, data, errorBuffer, i, x, y, visited >>

\* x and y after one round of `for y ... for x ...`.
Advance ==
    /\ x' = IF x + 1 < width THEN x + 1 ELSE 0
    /\ y' = IF x + 1 < width THEN y ELSE y + 1

ApplyPaletteStep ==
    /\ method = "none" /\ pc = "loop" /\ i < Len(data)
    /\ IF ClosestThrows(paletteColors) THEN Throw("TypeError")
       ELSE /\ data' = ApplyPaletteAt(data, i, paletteColors)
            /\ i' = i + 4
            /\ UNCHANGED << params, errorBuffer, x, y, visited, pc, thrown >>

ApplyPaletteReturn ==
    /\ method = "none" /\ pc = "loop" /\ i >= Len(data)
    /\ pc' = "returned"
    /\ UNCHANGED << params, data, errorBuffer, i, x, y, visited, thrown >>

FloydSteinbergStep ==
    /\ method = "floyd-steinberg" /\ pc = "loop" /\ y < height
    /\ IF ClosestThrows(paletteColors) THEN Throw("TypeError")
       ELSE LET st == FloydSteinbergAt([data |-> data, errorBuffer |-> errorBuffer],
                                       x, y, width, height, strength, paletteColors)
            IN  /\ data' = st.data
                /\ errorBuffer' = st.errorBuffer
                /\ Advance
                /\ UNCHANGED << params, i, visited, pc, thrown >>

AtkinsonStep ==
    /\ method = "atkinson" /\ pc = "loop" /\ y < height
    /\ IF ClosestThrows(paletteColors) THEN Throw("TypeError")
       ELSE LET st == AtkinsonAt([data |-> data, errorBuffer |-> errorBuffer],
                                 x, y, width, height, strength, paletteColors)
            IN  /\ data' = st.data
                /\ errorBuffer' = st.errorBuffer
                /\ Advance
                /\ UNCHANGED << params, i, visited, pc, thrown >>

OrderedStep ==
    /\ method = "ordered" /\ pc = "loop" /\ y < height
    /\ IF ClosestThrows(paletteColors) THEN Throw("TypeError")
       ELSE /\ data' = OrderedAt(data, x, y, width, strength, paletteColors,
                                 getBayerMatrix(matrixType))
            /\ Advance
            /\ UNCHANGED << params, errorBuffer, i, visited, pc, thrown >>

\* `return imageData` of the three ditherers.
DitherReturn ==
    /\ method # "none" /\ pc = "loop" /\ y >= height
    /\ pc' = "returned"
    /\ UNCHANGED << params, data, errorBuffer, i, x, y, visited, thrown >>

Next ==
    \/ ApplyPaletteStep
    \/ ApplyPaletteReturn
    \/ FloydSteinbergStep
    \/ AtkinsonStep
    \/ OrderedStep
    \/ DitherReturn

Spec == Init /\ [][Next]_vars

(***************************************************************************)
(* pixelate.  One call, from its entry to its return or its throw.  While  *)
(* applyPalette or a ditherer runs (stage "call") the actions above are    *)
(* its steps.  The environment has neither p5 nor Q5.                      *)
(***************************************************************************)
\* The variables of the function called: untouched outside the call.
callee == << method, matrixType, width, height, strength, paletteColors, input,
             data, errorBuffer, i, x, y, visited, pc >>

\* Variant: the error is recorded and the run goes on to putImageData.
RejectAndGoOn(message) ==
    /\ stage' = "put"
    /\ thrown' = message

\* `throw new Error(message)` in pixelate, and a rejection it awaits.
Reject(message) ==
    /\ stage' = "threw"
    /\ thrown' = message

\* Variant: `>=` for `>` in the check of the largest width.
ValidationErrorExclusive(image, targetWidth) ==
    IF image.kind = "undefined" THEN "Image parameter is required for pixelation."
    ELSE IF targetWidth = 0 \/ targetWidth < MIN_PIXEL_WIDTH
    THEN "Width must be at least 2 pixels."
    ELSE IF targetWidth >= MAX_PIXEL_WIDTH THEN "Width cannot exceed 4096 pixels."
    ELSE "none"

\* The checks of lines 111-119: the message of the error, "none" when the
\* parameters pass.  `!width` is true of 0.
ValidationError(image, targetWidth) ==
    IF image.kind = "undefined" THEN "Image parameter is required for pixelation."
    ELSE IF targetWidth = 0 \/ targetWidth < MIN_PIXEL_WIDTH
    THEN "Width must be at least 2 pixels."
    ELSE IF targetWidth > MAX_PIXEL_WIDTH THEN "Width cannot exceed 4096 pixels."
    ELSE "none"

Validate ==
    /\ stage = "validate"
    /\ IF ValidationError(options.image, options.width) # "none"
       THEN Reject(ValidationError(options.image, options.width))
       ELSE stage' = "load" /\ UNCHANGED thrown
    /\ UNCHANGED << callee, options, originalImageObject, pixelatePalette,
                    offscreenCanvas, pixelatedData, finalCanvas, result,
                    cachedPalette, calls >>

\* loadOriginalImage: an image element or a canvas is returned as it is, a
\* URL is loaded into a new image element or fails to load, and a value of
\* no supported kind is rejected.
LoadImage ==
    /\ stage = "load"
    /\ \/ /\ options.image.kind \in { "canvas", "image" }
          /\ originalImageObject' = options.image
          /\ stage' = "palette"
          /\ UNCHANGED thrown
       \/ /\ options.image.kind = "url"
          /\ originalImageObject' = [options.image EXCEPT !.kind = "image"]
          /\ stage' = "palette"
          /\ UNCHANGED thrown
       \/ /\ options.image.kind = "url"
          /\ Reject("Failed to load image")
          /\ UNCHANGED originalImageObject
       \/ /\ options.image.kind = "number"
          /\ Reject("Unsupported or invalid image source.")
          /\ UNCHANGED originalImageObject
    /\ UNCHANGED << callee, options, pixelatePalette, offscreenCanvas,
                    pixelatedData, finalCanvas, result, cachedPalette, calls >>

\* The palettes lospec.com serves, by name, as the hex strings of its JSON.
Lospec ==
    [name \in { "1bit-monitor-glow", "nokia-3310" } |->
        IF name = "1bit-monitor-glow"
        THEN << << "2", "2", "2", "3", "2", "3" >>, << "f", "0", "f", "6", "f", "0" >> >>
        ELSE << << "4", "3", "5", "2", "3", "d" >>, << "c", "7", "f", "0", "d", "8" >> >>]

\* array.map(hexToRgb)
MapHexToRgb(hexes) == [k \in 1..Len(hexes) |-> hexToRgb(hexes[k])]

\* Lines 127-136 with fetchPalette: no palette option leaves paletteColors
\* null; an array is converted; a name is answered from the cache when it
\* is the cached name, and fetched otherwise (the fetch may fail).
ResolvePalette ==
    /\ stage = "palette"
    /\ \/ /\ options.palette.kind = "null"
          /\ pixelatePalette' = NoPalette
          /\ stage' = "downscale"
          /\ UNCHANGED << cachedPalette, thrown >>
       \/ /\ options.palette.kind = "array"
          /\ pixelatePalette' = [isNull |-> FALSE,
                                 colors |-> MapHexToRgb(options.palette.hex)]
          /\ stage' = "downscale"
          /\ UNCHANGED << cachedPalette, thrown >>
       \/ /\ options.palette.kind = "name"
          /\ cachedPalette.name = options.palette.name
          /\ pixelatePalette' = [isNull |-> FALSE, colors |-> cachedPalette.colors]
          /\ stage' = "downscale"
          /\ UNCHANGED << cachedPalette, thrown >>
       \/ /\ options.palette.kind = "name"
          /\ cachedPalette.name # options.palette.name
          /\ options.palette.name \in DOMAIN Lospec
          /\ cachedPalette' = [name |-> options.palette.name,
                               colors |-> MapHexToRgb(Lospec[options.palette.name])]
          /\ pixelatePalette' = [isNull |-> FALSE,
                                 colors |-> MapHexToRgb(Lospec[options.palette.name])]
          /\ stage' = "downscale"
          /\ UNCHANGED thrown
       \/ /\ options.palette.kind = "name"
          /\ cachedPalette.name # options.palette.name
          /\ Reject("Palette not found")
          /\ UNCHANGED << pixelatePalette, cachedPalette >>
    /\ UNCHANGED << callee, options, originalImageObject, offscreenCanvas,
                    pixelatedData, finalCanvas, result, calls >>

\* The pixels a scaled drawImage may produce.
GridPixels == { << 200, 100, 50, 255 >>, << 120, 120, 120, 128 >> }

\* drawImage of `image` onto a new canvas of w x h pixels.  The filter is the
\* platform's: any content is possible on a grid of at most MaxPixels
\* pixels.  Larger grids are drawn from uniform images only, and are uniform.
Resampled(image, w, h) ==
    IF w * h <= MaxPixels
    THEN { Flatten(px) : px \in [1..(w * h) -> GridPixels] }
    ELSE { Flatten([k \in 1..(w * h) |-> SubSeq(image.data, 1, 4)]) }

\* Lines 139-177: the grid's size, the canvas of that size (the original
\* canvas itself when it already has it) and its pixels as ImageData.
\* getImageData of a canvas without rows throws an IndexSizeError.
DownscaleToGrid ==
    /\ stage = "downscale"
    /\ LET pixelsWide == options.width
           pixelsHigh == PixelsHigh(pixelsWide, originalImageObject.width,
                                    originalImageObject.height)
       IN  IF /\ originalImageObject.kind = "canvas"
              /\ originalImageObject.width = pixelsWide
              /\ originalImageObject.height = pixelsHigh
           THEN /\ offscreenCanvas' = [isOriginal |-> TRUE, width |-> pixelsWide,
                                       height |-> pixelsHigh,
                                       data |-> originalImageObject.data]
                /\ pixelatedData' = [width |-> pixelsWide, height |-> pixelsHigh,
                                     data |-> originalImageObject.data]
                /\ stage' = "dither"
                /\ UNCHANGED thrown
           ELSE \E drawn \in Resampled(originalImageObject, pixelsWide, pixelsHigh) :
                   /\ offscreenCanvas' = [isOriginal |-> FALSE, width |-> pixelsWide,
                                          height |-> pixelsHigh, data |-> drawn]
                   /\ IF pixelsHigh = 0
                      THEN Reject("IndexSizeError") /\ UNCHANGED pixelatedData
                      ELSE /\ pixelatedData' = [width |-> pixelsWide,
                                                height |-> pixelsHigh, data |-> drawn]
                           /\ stage' = "dither"
                           /\ UNCHANGED thrown
    /\ UNCHANGED << callee, options, originalImageObject, pixelatePalette,
                    finalCanvas, result, cachedPalette, calls >>

\* Variant: an empty array counts as a palette, and so does null.
TruthyAlways(palette) == TRUE

\* `if (paletteColors ...)`: null is false, every array is true.
Truthy(palette) == ~ palette.isNull

\* Lines 195-218: nothing without a palette; with one, applyPalette or the
\* ditherer of the name is called on pixelatedData, and a name that is none
\* of the known ones throws.
QuantizeOrDither ==
    /\ stage = "dither"
    /\ IF ~ Truthy(pixelatePalette)
       THEN stage' = "put" /\ UNCHANGED << callee, thrown >>
       ELSE IF Dispatch(options.dither).method = "throw"
       THEN Reject("Unknown dithering method") /\ UNCHANGED callee
       ELSE /\ method' = Dispatch(options.dither).method
            /\ matrixType' = Dispatch(options.dither).matrixType
            /\ width' = pixelatedData.width
            /\ height' = pixelatedData.height
            /\ strength' = IF Dispatch(options.dither).method = "none" THEN 0
                           ELSE DitheringStrength(options.strength)
            /\ paletteColors' = pixelatePalette.colors
            /\ input' = pixelatedData.data
            /\ data' = pixelatedData.data
            /\ errorBuffer' = IF Dispatch(options.dither).method
                                    \in { "floyd-steinberg", "atkinson" }
                              THEN ZeroBuffer(Len(pixelatedData.data)) ELSE << >>
            /\ i' = 0
            /\ x' = 0
            /\ y' = 0
            /\ visited' = { }
            /\ pc' = "loop"
            /\ stage' = "call"
            /\ UNCHANGED thrown
    /\ UNCHANGED << options, originalImageObject, pixelatePalette, offscreenCanvas,
                    pixelatedData, finalCanvas, result, cachedPalette, calls >>

\* The function called returns: it worked on pixelatedData.data itself.
CallReturn ==
    /\ stage = "call" /\ pc = "returned"
    /\ pixelatedData' = [pixelatedData EXCEPT !.data = data]
    /\ stage' = "put"
    /\ UNCHANGED << callee, thrown, options, originalImageObject, pixelatePalette,
                    offscreenCanvas, finalCanvas, result, cachedPalette, calls >>

\* The function called throws: pixelate does not catch.
CallThrew ==
    /\ stage = "call" /\ pc = "threw"
    /\ stage' = "threw"
    /\ UNCHANGED << callee, thrown, options, originalImageObject, pixelatePalette,
                    offscreenCanvas, pixelatedData, finalCanvas, result,
                    cachedPalette, calls >>

\* Variant: the result is scaled back whenever the widths differ.
ScalesBackInAnyMode(resolution, canvasWidth, originalWidth) ==
    canvasWidth # originalWidth

\* The test of line 224: whether the result is scaled back.  A resolution
\* option left out is 'original' (line 107).
ScalesBack(resolution, canvasWidth, originalWidth) ==
    /\ resolution \in { "undefined", "original" }
    /\ canvasWidth # originalWidth

\* Lines 221-249 up to the branch: putImageData on the offscreen canvas,
\* then either the upscale or the return of that canvas.
PutImageData ==
    /\ stage = "put"
    /\ offscreenCanvas' = [offscreenCanvas EXCEPT !.data = pixelatedData.data]
    /\ originalImageObject' =
          IF offscreenCanvas.isOriginal
          THEN [originalImageObject EXCEPT !.data = pixelatedData.data]
          ELSE originalImageObject
    /\ IF ScalesBack(options.resolution, offscreenCanvas.width,
                     originalImageObject.width)
       THEN stage' = "upscale" /\ UNCHANGED result
       ELSE /\ stage' = "done"
            /\ result' = [canvas |-> IF offscreenCanvas.isOriginal
                                     THEN "originalImageObject"
                                     ELSE "offscreenCanvas",
                          width |-> offscreenCanvas.width,
                          height |-> offscreenCanvas.height]
    /\ UNCHANGED << callee, thrown, options, pixelatePalette, pixelatedData,
                    finalCanvas, cachedPalette, calls >>

\* drawImage with imageSmoothingEnabled = false: each pixel of the w x h
\* target takes the pixel of the canvas under its centre.
NearestNeighbour(canvas, w, h) ==
    Flatten([k \in 1..(w * h) |->
        LET sx == ((2 * ((k - 1) % w) + 1) * canvas.width) \div (2 * w)
            sy == ((2 * ((k - 1) \div w) + 1) * canvas.height) \div (2 * h)
        IN  SubSeq(canvas.data, 4 * (sy * canvas.width + sx) + 1,
                   4 * (sy * canvas.width + sx) + 4)])

\* Lines 225-239: the final canvas of the original size, returned.
UpscaleToOriginal ==
    /\ stage = "upscale"
    /\ finalCanvas' = [width |-> originalImageObject.width,
                       height |-> originalImageObject.height,
                       data |-> NearestNeighbour(offscreenCanvas,
                                                 originalImageObject.width,
                                                 originalImageObject.height)]
    /\ result' = [canvas |-> "finalCanvas", width |-> originalImageObject.width,
                  height |-> originalImageObject.height]
    /\ stage' = "done"
    /\ UNCHANGED << callee, thrown, options, originalImageObject, pixelatePalette,
                    offscreenCanvas, pixelatedData, cachedPalette, calls >>

NextPixelate ==
    \/ Validate
    \/ LoadImage
    \/ ResolvePalette
    \/ DownscaleToGrid
    \/ QuantizeOrDither
    \/ CallReturn
    \/ CallThrew
    \/ PutImageData
    \/ UpscaleToOriginal
    \/ Next

(***************************************************************************)
(* The enumerated calls of pixelate.                                       *)
(***************************************************************************)
\* An image of one colour.
Uniform(kind, w, h, pixel) ==
    [kind |-> kind, width |-> w, height |-> h,
     data |-> Flatten([k \in 1..(w * h) |-> pixel])]

\* The image options: canvases, an image element, a URL, a number (a value
\* of no supported kind) and the missing option.
Sources ==
    { NoImage,
      [kind |-> "number", width |-> 0, height |-> 0, data |-> << >>],
      [kind |-> "canvas", width |-> 2, height |-> 2,
       data |-> Flatten(<< << 200, 100, 50, 255 >>, << 120, 120, 120, 128 >>,
                           << 120, 120, 120, 128 >>, << 200, 100, 50, 255 >> >>)],
      [kind |-> "canvas", width |-> 2, height |-> 1,
       data |-> Flatten(<< << 120, 120, 120, 128 >>, << 200, 100, 50, 255 >> >>)],
      Uniform("image", 4, 2, << 200, 100, 50, 255 >>),
      Uniform("url", 4, 2, << 120, 120, 120, 128 >>),
      Uniform("canvas", 8, 1, << 200, 100, 50, 255 >>),
      Uniform("canvas", 8, 8, << 200, 100, 50, 255 >>) }

Widths == { 0 - 1, 0, 1, 2, 3, 4, 8, 4096, 4097 }

\* Strength options, in percent.
StrengthOptions == { 0 - 50, 0, 50, 100, 150 }

DitherNames ==
    { NONE, << "N", "o", "n", "e" >>,
      FLOYD_STEINBERG,
      << "F", "l", "o", "y", "d", "-", "S", "t", "e", "i", "n", "b", "e", "r", "g" >>,
      ATKINSON, ORDERED,
      BAYER_2X2, << "2", "x", "2", " ", "B", "a", "y", "e", "r" >>,
      BAYER_4X4, << "4", "x", "4", " ", "B", "a", "y", "e", "r" >>,
      CLUSTERED_4X4,
      << "C", "l", "u", "s", "t", "e", "r", "e", "d", " ", "4", "x", "4" >>,
      << "b", "a", "y", "e", "r", "-", "2", "x", "2" >>,
      << "b", "a", "y", "e", "r", "-", "4", "x", "4" >>,
      << "c", "l", "u", "s", "t", "e", "r", "e", "d", "-", "4", "x", "4" >>,
      << "s", "i", "e", "r", "r", "a" >> }

\* Palette options: none, arrays of hex colours (one of them empty) and
\* Lospec names (one of them unknown to Lospec).
PaletteOptions ==
    { NoOption,
      [kind |-> "array", name |-> "",
       hex |-> << << "#", "0", "0", "0", "0", "0", "0" >>,
                  << "#", "f", "f", "f", "f", "f", "f" >> >>],
      [kind |-> "array", name |-> "",
       hex |-> << << "#", "F", "F", "8", "0", "0", "0" >>,
                  << "6", "4", "6", "4", "6", "4" >> >>],
      [kind |-> "array", name |-> "", hex |-> << >>],
      [kind |-> "name", name |-> "1bit-monitor-glow", hex |-> << >>],
      [kind |-> "name", name |-> "no-such-palette", hex |-> << >>] }

\* The cache before the call: empty, or left by an earlier call.
Caches ==
    { EmptyCache,
      [name |-> "1bit-monitor-glow",
       colors |-> MapHexToRgb(Lospec["1bit-monitor-glow"])] }

\* The number of pixels of the grid of a call, 0 when no grid is made.
GridSize(image, targetWidth) ==
    IF image.width = 0 \/ ValidationError(image, targetWidth) # "none" THEN 0
    ELSE targetWidth * PixelsHigh(targetWidth, image.width, image.height)

\* The calls enumerated.  No grid is wider than 8 pixels: a valid width
\* above 8 comes with an image that is not loaded.  A grid of more than
\* MaxPixels pixels, and any grid of the 8x8 canvas, is made without
\* palette only.  The options that play no part in a call keep one value:
\* the dither name and the strength without palette vary on one source
\* only, the resolution and the cache vary under one dither name only.
Enumerated(o, cache) ==
    /\ (o.width > 8 /\ ValidationError(o.image, o.width) = "none") =>
          o.image.kind = "number"
    /\ (GridSize(o.image, o.width) > MaxPixels \/ o.image.height = 8) =>
          /\ o.palette = NoOption
          /\ o.image = Uniform(o.image.kind, o.image.width, o.image.height,
                               SubSeq(o.image.data, 1, 4))
    /\ o.palette = NoOption =>
          \/ o.dither = NONE /\ o.strength = 0
          \/ o.image.kind = "image" /\ o.strength \in { 0, 150 }
    /\ o.palette # NoOption =>
          /\ GridSize(o.image, o.width) > 0
          /\ o.resolution # "original" => o.dither = FLOYD_STEINBERG /\ o.strength = 50
          /\ o.palette.kind = "name" => o.dither = FLOYD_STEINBERG /\ o.strength = 50
          /\ o.palette.hex = << >> => o.dither \in { NONE, ORDERED } /\ o.strength = 50
    /\ cache # EmptyCache => o.palette.kind = "name"

InitPixelate ==
    \E image \in Sources, targetWidth \in Widths, dither \in DitherNames,
       s \in StrengthOptions, palette \in PaletteOptions,
       resolution \in { "undefined", "original", "pixel" }, cache \in Caches :
        /\ Enumerated([image |-> image, width |-> targetWidth, dither |-> dither,
                       strength |-> s, palette |-> palette,
                       resolution |-> resolution], cache)
        /\ options = [image |-> image, width |-> targetWidth, dither |-> dither,
                      strength |-> s, palette |-> palette, resolution |-> resolution]
        /\ stage = "validate"
        /\ originalImageObject = NoImage
        /\ pixelatePalette = NoPalette
        /\ offscreenCanvas = NoOffscreen
        /\ pixelatedData = NoCanvas
        /\ finalCanvas = NoCanvas
        /\ result = NoResult
        /\ cachedPalette = cache
        /\ calls = << >>
        /\ method = "none"
        /\ matrixType = "8x8"
        /\ width = 0
        /\ height = 0
        /\ strength = 0
        /\ paletteColors = << >>
        /\ input = << >>
        /\ data = << >>
        /\ errorBuffer = << >>
        /\ i = 0
        /\ x = 0
        /\ y = 0
        /\ visited = { }
        /\ pc = "idle"
        /\ thrown = "none"

SpecPixelate == InitPixelate /\ [][NextPixelate]_vars

(***************************************************************************)
(* Calls whose buffer does not have width * height * 4 bytes: six bytes    *)
(* short (the last pixel cut after its green byte) or one pixel long.      *)
(***************************************************************************)
MismatchLengths(n) == { len \in { 4 * n - 6, 4 * n + 4 } : len > 0 }

InitMismatch ==
    \E d \in Dims, c \in Calls, pal \in Palettes :
        \E len \in MismatchLengths(d[1] * d[2]) :
            \E px \in [1..((len + 3) \div 4) ->
                           { << 200, 100, 50, 255 >>, << 120, 120, 120, 128 >> }] :
                Start(c[1], c[2], d[1], d[2], c[3], pal, SubSeq(Flatten(px), 1, len))

SpecMismatch == InitMismatch /\ [][Next]_vars

(***************************************************************************)
(* Ordered dithering with the order of the pixels left open: the body of   *)
(* orderedDithering's loop, run once on each pixel, in any order.          *)
(***************************************************************************)
InitAnyOrder ==
    /\ InitWith({ << 200, 100, 50, 255 >>, << 120, 120, 120, 128 >> })
    /\ method = "ordered"

OrderedAnyStep ==
    /\ method = "ordered" /\ pc = "loop"
    /\ \E px \in 0..(width * height - 1) :
          /\ px \notin visited
          /\ IF ClosestThrows(paletteColors) THEN Throw("TypeError")
             ELSE /\ data' = OrderedAt(data, px % width, px \div width, width,
                                       strength, paletteColors,
                                       getBayerMatrix(matrixType))
                  /\ visited' = visited \cup { px }
                  /\ UNCHANGED << params, errorBuffer, i, x, y, pc, thrown >>

OrderedAnyReturn ==
    /\ method = "ordered" /\ pc = "loop"
    /\ visited = 0..(width * height - 1)
    /\ pc' = "returned"
    /\ UNCHANGED << params, data, errorBuffer, i, x, y, visited, thrown >>

NextAnyOrder == OrderedAnyStep \/ OrderedAnyReturn

SpecAnyOrder == InitAnyOrder /\ [][NextAnyOrder]_vars

(***************************************************************************)
(* The first pixels of diffusion runs on grids wide and high enough for    *)
(* every target of a pixel to lie inside (3x2, 3x3 and 4x3), and on one    *)
(* row and one column of three pixels.  The run is followed over its first *)
(* MaxPixels - 1 pixels, as far as Scale keeps the products exact; the     *)
(* pixels behind them are all of the first colour.                         *)
(***************************************************************************)
WideDims == { << 3, 1 >>, << 1, 3 >>, << 3, 2 >>, << 3, 3 >>, << 4, 3 >> }

InitWide ==
    \E d \in WideDims, m \in { "floyd-steinberg", "atkinson" }, s \in Strengths,
       pal \in Palettes :
        \E head \in [1..(MaxPixels - 1) ->
                        { << 200, 100, 50, 255 >>, << 120, 120, 120, 128 >> }] :
            Start(m, "8x8", d[1], d[2], s, pal,
                  Flatten([k \in 1..(d[1] * d[2]) |->
                              IF k < MaxPixels THEN head[k]
                              ELSE << 200, 100, 50, 255 >>]))

WideFloydSteinbergStep ==
    /\ y * width + x < MaxPixels - 1
    /\ FloydSteinbergStep

WideAtkinsonStep ==
    /\ y * width + x < MaxPixels - 1
    /\ AtkinsonStep

NextWide == WideFloydSteinbergStep \/ WideAtkinsonStep

SpecWide == InitWide /\ [][NextWide]_vars

(***************************************************************************)
(* Two calls of pixelate side by side.  A call runs without interruption   *)
(* from one `await` to the next: up to the await of loadOriginalImage,     *)
(* from there to the await of fetchPalette (or to the end when the palette *)
(* is no name), and from there to the end.  The callback of a fetch runs   *)
(* on its own, before the call that awaits it resumes.  cachedPalette is   *)
(* the one variable of the module that the calls share.                    *)
(***************************************************************************)
\* Variant: whatever is cached answers every name.
CacheHitAny(cache, paletteName) == cache.name # ""

\* `cachedPalette.name === paletteName` of fetchPalette.
CacheHit(cache, paletteName) == cache.name = paletteName

\* A call that has not begun, with its options.
NewCall(o) ==
    [options |-> o, stage |-> "new", thrown |-> "none",
     originalImageObject |-> NoImage, paletteColors |-> NoPalette,
     read |-> << >>, result |-> NoCanvas]

\* Lines 139-249 in one piece, for the image loaded, the palette resolved
\* and `drawn` the pixels drawImage puts on the grid canvas: the record of
\* the call at its end.
RunToEnd(call, drawn) ==
    LET o == call.options
        image == call.originalImageObject
        pixelsWide == o.width
        pixelsHigh == PixelsHigh(pixelsWide, image.width, image.height)
        reuse == /\ image.kind = "canvas"
                 /\ image.width = pixelsWide
                 /\ image.height = pixelsHigh
        read == IF reuse THEN image.data ELSE drawn
        colors == call.paletteColors.colors
        dispatch == Dispatch(o.dither)
        failure ==
            IF pixelsHigh = 0 THEN "IndexSizeError"
            ELSE IF ~ Truthy(call.paletteColors) THEN "none"
            ELSE IF dispatch.method = "throw" THEN "Unknown dithering method"
            ELSE IF ClosestThrows(colors) THEN "TypeError"
            ELSE "none"
        processed ==
            IF ~ Truthy(call.paletteColors) THEN read
            ELSE IF dispatch.method = "none" THEN applyPalette(read, colors)
            ELSE IF dispatch.method = "ordered"
            THEN orderedDithering(read, pixelsWide, pixelsHigh,
                                  DitheringStrength(o.strength), colors,
                                  getBayerMatrix(dispatch.matrixType))
            ELSE DiffuseInOrder(dispatch.method, read, RowMajor(pixelsWide, pixelsHigh),
                                pixelsWide, pixelsHigh, DitheringStrength(o.strength),
                                colors)
    IN  IF failure # "none"
        THEN [call EXCEPT !.stage = "threw", !.thrown = failure]
        ELSE [call EXCEPT
                !.stage = "done",
                !.read = read,
                !.result =
                    IF ScalesBack(o.resolution, pixelsWide, image.width)
                    THEN [width |-> image.width, height |-> image.height,
                          data |-> NearestNeighbour(
                                       [width |-> pixelsWide, height |-> pixelsHigh,
                                        data |-> processed],
                                       image.width, image.height)]
                    ELSE [width |-> pixelsWide, height |-> pixelsHigh,
                          data |-> processed]]

\* The pixels drawImage may put on the grid canvas of a call.
Drawable(call) ==
    Resampled(call.originalImageObject, call.options.width,
              PixelsHigh(call.options.width, call.originalImageObject.width,
                         call.originalImageObject.height))

\* What the model of one call leaves alone.
single == << method, matrixType, width, height, strength, paletteColors, input,
             data, errorBuffer, i, x, y, visited, pc, thrown, options, stage,
             originalImageObject, pixelatePalette, offscreenCanvas, pixelatedData,
             finalCanvas, result >>

\* pixelate is called: the checks of lines 111-119, then it awaits
\* loadOriginalImage.
Begin(k) ==
    /\ calls[k].stage = "new"
    /\ LET o == calls[k].options
       IN  calls' = [calls EXCEPT ![k] =
                        IF ValidationError(o.image, o.width) # "none"
                        THEN [@ EXCEPT !.stage = "threw",
                                       !.thrown = ValidationError(o.image, o.width)]
                        ELSE [@ EXCEPT !.stage = "loading"]]
    /\ UNCHANGED << single, cachedPalette >>

\* The image is there.  Without palette, or with an array, the call runs to
\* its end; with a name it calls fetchPalette, which answers from the cache
\* (the colours cached at this moment) or starts a fetch, and awaits.
Loaded(k) ==
    /\ calls[k].stage = "loading"
    /\ calls[k].options.image.kind \in { "canvas", "image" }
    /\ LET o == calls[k].options
           loaded == [calls[k] EXCEPT !.originalImageObject = o.image]
       IN  \/ /\ o.palette.kind = "null"
              /\ \E drawn \in Drawable(loaded) :
                    calls' = [calls EXCEPT ![k] = RunToEnd(loaded, drawn)]
           \/ /\ o.palette.kind = "array"
              /\ \E drawn \in Drawable(loaded) :
                    calls' = [calls EXCEPT ![k] =
                        RunToEnd([loaded EXCEPT !.paletteColors =
                                     [isNull |-> FALSE,
                                      colors |-> MapHexToRgb(o.palette.hex)]],
                                 drawn)]
           \/ /\ o.palette.kind = "name"
              /\ CacheHit(cachedPalette, o.palette.name)
              /\ calls' = [calls EXCEPT ![k] =
                              [loaded EXCEPT !.stage = "resolved",
                                             !.paletteColors =
                                                 [isNull |-> FALSE,
                                                  colors |-> cachedPalette.colors]]]
           \/ /\ o.palette.kind = "name"
              /\ ~ CacheHit(cachedPalette, o.palette.name)
              /\ calls' = [calls EXCEPT ![k] = [loaded EXCEPT !.stage = "fetching"]]
    /\ UNCHANGED << single, cachedPalette >>

\* The fetch of a call is answered: the callback of line 498 converts the
\* colours, stores them in the cache under the name and hands them on.
Fetched(k) ==
    /\ calls[k].stage = "fetching"
    /\ calls[k].options.palette.name \in DOMAIN Lospec
    /\ LET colors == MapHexToRgb(Lospec[calls[k].options.palette.name])
       IN  /\ cachedPalette' = [name |-> calls[k].options.palette.name,
                                colors |-> colors]
           /\ calls' = [calls EXCEPT ![k] =
                           [@ EXCEPT !.stage = "resolved",
                                     !.paletteColors =
                                         [isNull |-> FALSE, colors |-> colors]]]
    /\ UNCHANGED single

\* The fetch fails, or its response is not ok: the call throws.
FetchFailed(k) ==
    /\ calls[k].stage = "fetching"
    /\ calls' = [calls EXCEPT ![k] =
                    [@ EXCEPT !.stage = "threw", !.thrown = "Palette not found"]]
    /\ UNCHANGED << single, cachedPalette >>

\* The call resumes with its palette and runs to its end.
Resumed(k) ==
    /\ calls[k].stage = "resolved"
    /\ \E drawn \in Drawable(calls[k]) :
          calls' = [calls EXCEPT ![k] = RunToEnd(calls[k], drawn)]
    /\ UNCHANGED << single, cachedPalette >>

\* The options of the calls side by side: image elements of 4x2 pixels
\* reduced to 2x1, with a Lospec name, an array or no palette.
ConcurrentOptions(pixel) ==
    { [image |-> Uniform("image", 4, 2, pixel), width |-> 2, dither |-> dither,
       strength |-> 100, palette |-> palette, resolution |-> resolution] :
        dither \in { NONE, FLOYD_STEINBERG },
        palette \in { NoOption,
                      [kind |-> "array", name |-> "",
                       hex |-> << << "#", "0", "0", "0", "0", "0", "0" >>,
                                  << "#", "f", "f", "f", "f", "f", "f" >> >>],
                      [kind |-> "name", name |-> "1bit-monitor-glow", hex |-> << >>],
                      [kind |-> "name", name |-> "nokia-3310", hex |-> << >>] },
        resolution \in { "original", "pixel" } }

InitConcurrent ==
    /\ NoPipeline
    /\ \E o1 \in ConcurrentOptions(<< 200, 100, 50, 255 >>),
          o2 \in ConcurrentOptions(<< 120, 120, 120, 128 >>) :
          /\ o1.palette = NoOption => o1.dither = NONE /\ o1.resolution = "pixel"
          /\ o2.palette = NoOption => o2.dither = NONE /\ o2.resolution = "pixel"
          /\ calls = << NewCall(o1), NewCall(o2) >>
    /\ method = "none"
    /\ matrixType = "8x8"
    /\ width = 0
    /\ height = 0
    /\ strength = 0
    /\ paletteColors = << >>
    /\ input = << >>
    /\ data = << >>
    /\ errorBuffer = << >>
    /\ i = 0
    /\ x = 0
    /\ y = 0
    /\ visited = { }
    /\ pc = "idle"
    /\ thrown = "none"

BeginSome == \E k \in DOMAIN calls : Begin(k)
LoadedSome == \E k \in DOMAIN calls : Loaded(k)
FetchedSome == \E k \in DOMAIN calls : Fetched(k)
FetchFailedSome == \E k \in DOMAIN calls : FetchFailed(k)
ResumedSome == \E k \in DOMAIN calls : Resumed(k)

NextConcurrent ==
    \/ BeginSome
    \/ LoadedSome
    \/ FetchedSome
    \/ FetchFailedSome
    \/ ResumedSome

SpecConcurrent == InitConcurrent /\ [][NextConcurrent]_vars

(***************************************************************************)
(* Properties.                                                             *)
(***************************************************************************)
NumPixels == width * height

\* The RGB of pixel px (from 0) of a buffer.
RGBAt(buf, px) == << buf[4 * px + 1], buf[4 * px + 2], buf[4 * px + 3] >>

PaletteSet == { paletteColors[k] : k \in 1..Len(paletteColors) }

IsDiffusion == method \in { "floyd-steinberg", "atkinson" }

\* The loop is about to run its body on a pixel.
InBody ==
    /\ pc = "loop"
    /\ IF method = "none" THEN i < Len(data) ELSE y < height

\* The colour the body is about to hand to findClosestPaletteColor.
Query ==
    CASE method = "none" -> Scaled(RGBAt(data, i \div 4))
      [] IsDiffusion -> Observed(data, errorBuffer, (y * width + x) * 4)
      [] method = "ordered" ->
           AdjustedColor(data, x, y, width, strength, getBayerMatrix(matrixType))

\* The distance from colour c to entry j (from 0) of the palette.
DistTo(c, j) == colorDistance(c, Scaled(paletteColors[j + 1]))

\* C1: for a non-empty palette, findClosestPaletteColor returns an entry of
\* the palette at minimal squared distance from the colour, and of the
\* entries at that distance the one of smallest index.
C1_NearestIsFirstMinimum ==
    (InBody /\ paletteColors # << >>) =>
        LET k == findClosestIndex(Query, paletteColors)
        IN  /\ k \in 0..(Len(paletteColors) - 1)
            /\ findClosestPaletteColor(Query, paletteColors) \in PaletteSet
            /\ \A j \in 0..(Len(paletteColors) - 1) :
                  /\ ~ WLess(DistTo(Query, j), DistTo(Query, k))
                  /\ (j < k => WLess(DistTo(Query, k), DistTo(Query, j)))

\* A colour at the same distance from two palette entries of different
\* colours, the one returned and a later one.
C1_Witness ==
    /\ InBody /\ paletteColors # << >>
    /\ LET k == findClosestIndex(Query, paletteColors)
       IN  \E j \in 0..(Len(paletteColors) - 1) :
              /\ j > k
              /\ paletteColors[j + 1] # paletteColors[k + 1]
              /\ DistTo(Query, j) = DistTo(Query, k)

\* C2: applyPalette leaves the pixels it has not reached as they were and
\* gives each pixel it has processed the palette colour nearest to that
\* pixel's original RGB; the uniform 4x4 buffer of (200,100,50,255) with
\* palette [(0,0,0),(255,255,255)] becomes all (0,0,0,255).
C2_FlatQuantizesEachPixel ==
    (method = "none" /\ paletteColors # << >>) =>
        /\ \A px \in 0..(NumPixels - 1) :
              RGBAt(data, px) =
                  IF 4 * px < i
                  THEN findClosestPaletteColor(Scaled(RGBAt(input, px)), paletteColors)
                  ELSE RGBAt(input, px)
        /\ ( /\ pc = "returned"
             /\ input = Flatten([k \in 1..16 |-> << 200, 100, 50, 255 >>])
             /\ paletteColors = << << 0, 0, 0 >>, << 255, 255, 255 >> >> )
           => data = Flatten([k \in 1..16 |-> << 0, 0, 0, 255 >>])

C2_Witness ==
    /\ method = "none" /\ pc = "returned"
    /\ input = Flatten([k \in 1..16 |-> << 200, 100, 50, 255 >>])
    /\ paletteColors = << << 0, 0, 0 >>, << 255, 255, 255 >> >>
    /\ data = Flatten([k \in 1..16 |-> << 0, 0, 0, 255 >>])

\* C3: with a non-empty palette, every method returns a buffer of the
\* input's length, width * height * 4, in which the RGB of every pixel is an
\* entry of the palette.
C3_OutputInPalette ==
    (pc = "returned" /\ paletteColors # << >>) =>
        /\ Len(data) = Len(input)
        /\ Len(data) = width * height * 4
        /\ \A px \in 0..(NumPixels - 1) : RGBAt(data, px) \in PaletteSet

\* A diffusion run of full strength on several pixels that changed the buffer.
C3_Witness ==
    /\ pc = "returned" /\ paletteColors # << >>
    /\ IsDiffusion /\ strength = 2 /\ NumPixels > 1
    /\ data # input
    /\ \E k \in 1..Len(errorBuffer) : errorBuffer[k] # 0

\* C4: the alpha byte of every pixel keeps its input value at every step of
\* every method, and the alpha slots of the error buffer stay zero.
C4_AlphaUntouched ==
    \A px \in 0..(NumPixels - 1) :
        /\ data[4 * px + 4] = input[4 * px + 4]
        /\ (errorBuffer # << >> => errorBuffer[4 * px + 4] = 0)

\* A finished diffusion run that carried error, on a buffer whose alpha is
\* not opaque everywhere.
C4_Witness ==
    /\ pc = "returned" /\ IsDiffusion
    /\ \E px \in 0..(NumPixels - 1) : input[4 * px + 4] # 255
    /\ \E k \in 1..Len(errorBuffer) : errorBuffer[k] # 0
    /\ data # input

\* C5: Floyd-Steinberg and Atkinson with strength 0 return the buffer that
\* applyPalette produces from the same input and palette.
C5_ZeroStrengthIsFlat ==
    (pc = "returned" /\ IsDiffusion /\ strength = 0) =>
        data = applyPalette(input, paletteColors)

\* A zero-strength diffusion run over several pixels, none of them a
\* palette colour.
C5_Witness ==
    /\ pc = "returned" /\ IsDiffusion /\ strength = 0
    /\ NumPixels > 1
    /\ \A px \in 0..(NumPixels - 1) : RGBAt(input, px) \notin PaletteSet

\* C6: applyPalette applied to the buffer applyPalette returned leaves it
\* as it is.
C6_FlatIdempotent ==
    (pc = "returned" /\ method = "none") =>
        applyPalette(data, paletteColors) = data

\* A flat quantization that changed the buffer.
C6_Witness ==
    /\ pc = "returned" /\ method = "none"
    /\ data # input

\* C7: ordered dithering that processes the pixels in any order returns the
\* buffer the row-major scan returns.
C7_OrderIndependent ==
    (pc = "returned" /\ method = "ordered") =>
        data = orderedDithering(input, width, height, strength, paletteColors,
                                getBayerMatrix(matrixType))

\* A run that processed the last pixel of the raster first, and changed it.
C7_Witness ==
    /\ pc = "loop" /\ method = "ordered" /\ NumPixels > 1
    /\ visited = { NumPixels - 1 }
    /\ strength > 0
    /\ data # input

\* The pixels of the input are not all of one colour.
HasVariation ==
    \E p1, p2 \in 0..(NumPixels - 1) : RGBAt(input, p1) # RGBAt(input, p2)

\* The buffer the run's method returns when it scans the rows bottom-up.
ReversedScan ==
    DiffuseInOrder(method, input, RowsReversed(width, height), width, height,
                   strength, paletteColors)

\* C8 as stated: for every image with variation, the diffusion ditherers
\* return a different buffer when the row order is reversed.
C8_ReversalAlwaysChangesOutput ==
    (pc = "returned" /\ IsDiffusion /\ HasVariation) => ReversedScan # data

\* C8, amended: reversing the row order changes the output of a diffusion
\* ditherer only when the strength is positive, the image has at least two
\* rows and some pixel is not exactly a palette colour.
C8_ReversalChangesOnlyWithError ==
    (pc = "returned" /\ IsDiffusion /\ ReversedScan # data) =>
        /\ strength > 0
        /\ height >= 2
        /\ \E px \in 0..(NumPixels - 1) : RGBAt(input, px) \notin PaletteSet

\* An image with variation whose output the reversal of the rows changes.
C8_Witness ==
    /\ pc = "returned" /\ IsDiffusion /\ HasVariation
    /\ ReversedScan # data

\* C9: on a 1x1 buffer the error buffer of Floyd-Steinberg and Atkinson
\* stays all zero, and they return what applyPalette returns.
C9_OnePixel ==
    (IsDiffusion /\ width = 1 /\ height = 1 /\ paletteColors # << >>) =>
        /\ \A k \in 1..Len(errorBuffer) : errorBuffer[k] = 0
        /\ (pc = "returned" => data = applyPalette(input, paletteColors))

\* A 1x1 diffusion run of positive strength whose pixel was not a palette
\* colour, so that its quantization error is not zero.
C9_Witness ==
    /\ pc = "returned" /\ IsDiffusion /\ width = 1 /\ height = 1
    /\ strength > 0
    /\ data # input

\* C10: a call with an empty palette fails with EmptyPaletteError.
C10_EmptyPaletteError ==
    (paletteColors = << >> /\ pc # "loop") =>
        (pc = "threw" /\ thrown = "EmptyPaletteError")

\* C11: a ditherer called with a non-empty palette and a buffer whose length
\* is not width * height * 4 leaves the buffer as it was, does not return,
\* and the error it fails with is DimensionMismatchError.
C11_DimensionMismatchError ==
    (Len(input) # width * height * 4 /\ paletteColors # << >>)
        => /\ data = input
           /\ pc # "returned"
           /\ pc = "threw" => thrown = "DimensionMismatchError"

(***************************************************************************)
(* Properties of pixelate.                                                 *)
(***************************************************************************)
\* The errors of pixelate's checks of its parameters.
InvalidConfigError ==
    { "Image parameter is required for pixelation.",
      "Width must be at least 2 pixels.",
      "Width cannot exceed 4096 pixels." }

\* Nothing was loaded, fetched or created.
NothingStarted ==
    /\ originalImageObject = NoImage
    /\ pixelatePalette = NoPalette
    /\ offscreenCanvas = NoOffscreen
    /\ pixelatedData = NoCanvas
    /\ finalCanvas = NoCanvas
    /\ result = NoResult
    /\ pc = "idle"
    /\ data = << >>

\* C12: once the checks of the parameters are done, a call with a width
\* below 2 or above 4096 has thrown one of their errors (the error of the
\* width when there is an image) with no image loaded, no palette resolved
\* and no canvas or buffer created; a call with an image and a width from 2
\* to 4096 has passed them.
C12_WidthValidated ==
    stage # "validate" =>
        /\ (options.width < MIN_PIXEL_WIDTH \/ options.width > MAX_PIXEL_WIDTH) =>
              /\ stage = "threw"
              /\ thrown \in InvalidConfigError
              /\ options.image # NoImage =>
                    thrown # "Image parameter is required for pixelation."
              /\ NothingStarted
        /\ ( /\ options.width \in MIN_PIXEL_WIDTH..MAX_PIXEL_WIDTH
             /\ options.image # NoImage ) => thrown \notin InvalidConfigError

\* A width above the largest one was rejected, the image being a canvas.
C12_Witness ==
    /\ options.width = MAX_PIXEL_WIDTH + 1
    /\ options.image.kind = "canvas"
    /\ stage = "threw"
    /\ thrown = "Width cannot exceed 4096 pixels."

\* C13: a call whose strength option is below 0 or above 100 is rejected by
\* the checks of the parameters and gets no further, and no ditherer runs
\* with a strength below 0 or above 1 (0 and 2 in halves).
C13_StrengthValidated ==
    /\ (options.strength < 0 \/ options.strength > 100) =>
          /\ stage \in { "validate", "threw" }
          /\ stage = "threw" => thrown \in InvalidConfigError /\ NothingStarted
    /\ pc = "loop" => strength \in 0..2

\* The names of the dither option in the specification's list.
EnumNames ==
    { NONE, FLOYD_STEINBERG, ATKINSON, ORDERED,
      << "b", "a", "y", "e", "r", "-", "2", "x", "2" >>,
      << "b", "a", "y", "e", "r", "-", "4", "x", "4" >>,
      << "c", "l", "u", "s", "t", "e", "r", "e", "d", "-", "4", "x", "4" >> }

\* The names pixelate's if-chain knows.
KnownNames ==
    { NONE, FLOYD_STEINBERG, ATKINSON, ORDERED, BAYER_2X2, BAYER_4X4, CLUSTERED_4X4 }

\* C14: a call whose dither name is no recognised name (in either list,
\* whatever the case of its letters) does not return a canvas: with or
\* without a palette it ends in the error of the unknown name, unless it
\* failed before the name is looked at.
C14_UnknownAlgorithmError ==
    toLowerCase(options.dither) \notin (EnumNames \cup KnownNames) =>
        /\ stage \notin { "put", "upscale", "done" }
        /\ result = NoResult

AlgorithmOf(name, names, buf, w, h, s, pal) ==
    IF name = NONE THEN applyPalette(buf, pal)
    ELSE IF name = FLOYD_STEINBERG
    THEN DiffuseInOrder("floyd-steinberg", buf, RowMajor(w, h), w, h, s, pal)
    ELSE IF name = ATKINSON
    THEN DiffuseInOrder("atkinson", buf, RowMajor(w, h), w, h, s, pal)
    ELSE IF name = ORDERED
    THEN orderedDithering(buf, w, h, s, pal, getBayerMatrix("8x8"))
    ELSE IF name = names[1]
    THEN orderedDithering(buf, w, h, s, pal, getBayerMatrix("2x2"))
    ELSE IF name = names[2]
    THEN orderedDithering(buf, w, h, s, pal, getBayerMatrix("4x4"))
    ELSE IF name = names[3]
    THEN orderedDithering(buf, w, h, s, pal, getBayerMatrix("clustered 4x4"))
    ELSE << >>

\* With a non-empty palette, every name of `names` and of the four common
\* names, in any case of its letters, is accepted and its algorithm is what
\* ran on the buffer read from the canvas.
NamesRunTheirAlgorithm(names) ==
    ( /\ options.palette # NoOption
      /\ pixelatePalette.colors # << >>
      /\ toLowerCase(options.dither) \in
            { NONE, FLOYD_STEINBERG, ATKINSON, ORDERED, names[1], names[2], names[3] }
      /\ stage \in { "put", "threw" } ) =>
        /\ stage = "put"
        /\ pixelatedData.data =
              AlgorithmOf(toLowerCase(options.dither), names, offscreenCanvas.data,
                          offscreenCanvas.width, offscreenCanvas.height,
                          DitheringStrength(options.strength),
                          pixelatePalette.colors)

\* C16 as stated: the names are none, floyd-steinberg, atkinson, ordered,
\* bayer-2x2, bayer-4x4 and clustered-4x4.
C16_EnumNamesAccepted ==
    NamesRunTheirAlgorithm(<< << "b", "a", "y", "e", "r", "-", "2", "x", "2" >>,
                              << "b", "a", "y", "e", "r", "-", "4", "x", "4" >>,
                              << "c", "l", "u", "s", "t", "e", "r", "e", "d", "-",
                                 "4", "x", "4" >> >>)

\* C16, amended: with a non-empty palette the names none, floyd-steinberg,
\* atkinson, ordered, '2x2 bayer', '4x4 bayer' and 'clustered 4x4', in any
\* case of their letters, are accepted and run flat quantization, the two
\* diffusions, and ordered dithering with the 8x8, 2x2, 4x4 and clustered
\* 4x4 matrices; the names bayer-2x2, bayer-4x4 and clustered-4x4 are
\* rejected as unknown.
C16_KnownNamesAccepted ==
    /\ NamesRunTheirAlgorithm(<< BAYER_2X2, BAYER_4X4, CLUSTERED_4X4 >>)
    /\ ( /\ toLowerCase(options.dither) \in EnumNames \ KnownNames
         /\ options.palette # NoOption
         /\ pixelatePalette.colors # << >> ) =>
           /\ stage \notin { "call", "put", "upscale", "done" }
           /\ stage = "threw" => thrown = "Unknown dithering method"

\* '2x2 Bayer', with capitals, ran ordered dithering and changed the buffer.
C16_Witness ==
    /\ options.dither # BAYER_2X2
    /\ toLowerCase(options.dither) = BAYER_2X2
    /\ pixelatePalette.colors # << >>
    /\ stage = "put"
    /\ pixelatedData.data # offscreenCanvas.data

\* The place of a position of pixelate in the order of the stages: the
\* checks, the load and the palette come before DownscaleToGrid; the
\* dispatch, the call and putImageData are Quantize/Dither.
StageRank(s) ==
    CASE s = "validate" -> 1
      [] s = "load" -> 2
      [] s = "palette" -> 3
      [] s = "downscale" -> 4
      [] s = "dither" -> 5
      [] s = "call" -> 6
      [] s = "put" -> 7
      [] s = "upscale" -> 8
      [] s = "done" -> 9
      [] s = "threw" -> 10

\* C17: every step of a run of pixelate that changes its position moves it
\* forward in the order checks, load, palette, DownscaleToGrid,
\* Quantize/Dither, UpscaleToOriginal, Done; nothing follows Done or a
\* throw; Done follows putImageData or the upscale only; the functions
\* called run during Quantize/Dither only; and a run that threw is at its
\* end.
C17_StagesInOrder ==
    [][ /\ stage' # stage =>
              /\ stage \notin { "done", "threw" }
              /\ StageRank(stage') > StageRank(stage)
        /\ stage' = "done" => stage \in { "put", "upscale" }
        /\ stage' = "upscale" => stage = "put"
        /\ (pc' # pc \/ data' # data) => (stage \in { "dither", "call" } /\ stage' = "call")
        /\ thrown' # "none" => stage' \in { "call", "threw" }
        /\ (stage = "call" /\ thrown # "none") => stage' \in { "call", "threw" }
      ]_vars

\* A run went through every stage, the upscale included.
C17_Witness ==
    /\ stage = "done"
    /\ result.canvas = "finalCanvas"
    /\ pc = "returned"
    /\ data # input

\* C18: the canvas a run returns has the width and height of the source
\* image when the resolution is 'original' or left out, and is the grid,
\* options.width wide and round(options.width * height / width) high, when
\* the resolution is 'pixel'; the final (upscaled) canvas is made in the
\* first case only.
C18_ResultSize ==
    stage = "done" =>
        /\ options.resolution \in { "undefined", "original" } =>
              /\ result.width = options.image.width
              /\ result.height = options.image.height
        /\ options.resolution = "pixel" =>
              /\ result.width = options.width
              /\ result.height =
                    (2 * options.width * options.image.height + options.image.width)
                        \div (2 * options.image.width)
              /\ result.canvas # "finalCanvas"
              /\ finalCanvas = NoCanvas

\* The 8x8 canvas with width 4, the resolution left out: a canvas of 8x8.
C18_Witness ==
    /\ stage = "done"
    /\ options.resolution = "undefined"
    /\ options.image.kind = "canvas"
    /\ options.image.width = 8 /\ options.image.height = 8
    /\ options.width = 4
    /\ offscreenCanvas.width = 4 /\ offscreenCanvas.height = 4
    /\ result = [canvas |-> "finalCanvas", width |-> 8, height |-> 8]

(***************************************************************************)
(* Properties of getBayerMatrix.                                           *)
(***************************************************************************)
\* C19: the matrix of type '2x2' is [[0, 2], [3, 1]].
C19_Bayer2x2 ==
    matrixType = "2x2" =>
        getBayerMatrix(matrixType) = << << 0, 2 >>, << 3, 1 >> >>

\* An ordered run with the 2x2 matrix and a strength above 0 returned.
C19_Witness ==
    /\ method = "ordered"
    /\ matrixType = "2x2"
    /\ strength > 0
    /\ pc = "returned"
    /\ data # input

\* The side the name of a Bayer matrix announces.
SizeOf(type) ==
    CASE type = "2x2" -> 2
      [] type = "4x4" -> 4
      [] type = "8x8" -> 8

\* bayerMatrix has `size` rows of `size` values, and its values are the
\* integers 0 .. size * size - 1: as many values as cells, so each once.
IsPermutationMatrix(bayerMatrix, size) ==
    /\ Len(bayerMatrix) = size
    /\ \A r \in 1..size : Len(bayerMatrix[r]) = size
    /\ { bayerMatrix[r][c] : r \in 1..size, c \in 1..size } = 0..(size * size - 1)

\* C20: the matrices of types '2x2', '4x4' and '8x8' are square, of side 2,
\* 4 and 8, and hold every integer from 0 to size * size - 1 exactly once.
C20_BayerPermutation ==
    matrixType \in { "2x2", "4x4", "8x8" } =>
        IsPermutationMatrix(getBayerMatrix(matrixType), SizeOf(matrixType))

\* An ordered run with the 8x8 matrix and a strength above 0 returned.
C20_Witness ==
    /\ method = "ordered"
    /\ matrixType = "8x8"
    /\ strength > 0
    /\ pc = "returned"
    /\ data # input

(***************************************************************************)
(* The Bayer matrices as a recursive construction.                         *)
(***************************************************************************)
\* The quadrant of cell (r, c), counted from 0, of a matrix of side
\* 2 * size: 0 top-left, 1 top-right, 2 bottom-left, 3 bottom-right.
Quadrant(r, c, size) == (IF r < size THEN 0 ELSE 2) + (IF c < size THEN 0 ELSE 1)

\* One step of the README's generateBayerMatrix, from prev to the matrix of
\* twice its side: the offset of a quadrant is scaled by size * size.
BayerStepScaled(prev) ==
    LET size == Len(prev)
    IN  [r \in 1..(2 * size) |->
            [c \in 1..(2 * size) |->
                prev[((r - 1) % size) + 1][((c - 1) % size) + 1] * 4
                    + << 0, 2, 3, 1 >>[Quadrant(r - 1, c - 1, size) + 1]
                          * (size * size)]]

\* The same step with the offset of a quadrant not scaled.
BayerStep(prev) ==
    LET size == Len(prev)
    IN  [r \in 1..(2 * size) |->
            [c \in 1..(2 * size) |->
                prev[((r - 1) % size) + 1][((c - 1) % size) + 1] * 4
                    + << 0, 2, 3, 1 >>[Quadrant(r - 1, c - 1, size) + 1]]]

\* Rows and columns exchanged.
Transposed(m) == [r \in 1..Len(m) |-> [c \in 1..Len(m) |-> m[c][r]]]

PerturbationOf(px) ==
    LET matrix == getBayerMatrix(matrixType)
        size == Len(matrix)
        m == matrix[((px \div width) % size) + 1][((px % width) % size) + 1]
        t == MulFrac((2 * m + 1) * 255, Scale, 2 * size * size)
    IN  MulFrac(t - (255 * Scale) \div 2, strength, 2)

\* The original RGB of pixel px with the perturbation added to each channel.
Perturbed(px) ==
    << input[4 * px + 1] * Scale + PerturbationOf(px),
       input[4 * px + 2] * Scale + PerturbationOf(px),
       input[4 * px + 3] * Scale + PerturbationOf(px) >>

\* C23: at every point of an ordered run, each pixel processed holds the
\* palette colour nearest to its own original RGB plus (t - 127.5) * strength
\* on each channel, t = (matrix[y mod size][x mod size] + 0.5) / size^2 * 255,
\* each pixel not yet processed holds its original RGB, and the colour about
\* to be quantized is that perturbed original colour of the pixel itself.
C23_OrderedPerPixel ==
    (method = "ordered" /\ paletteColors # << >> /\ pc \in { "loop", "returned" }) =>
        /\ \A px \in 0..(NumPixels - 1) :
              RGBAt(data, px) =
                  IF px < y * width + x
                  THEN findClosestPaletteColor(Perturbed(px), paletteColors)
                  ELSE RGBAt(input, px)
        /\ InBody => Query = Perturbed(y * width + x)

\* An ordered run returned a buffer that flat quantization would not give,
\* and in which two pixels of the same original colour differ.
C23_Witness ==
    /\ method = "ordered" /\ pc = "returned" /\ strength > 0
    /\ paletteColors # << >>
    /\ data # applyPalette(input, paletteColors)
    /\ \E p, q \in 0..(NumPixels - 1) :
          /\ RGBAt(input, p) = RGBAt(input, q)
          /\ RGBAt(data, p) # RGBAt(data, q)

(***************************************************************************)
(* The thresholds of a matrix over one period.                             *)
(***************************************************************************)
\* The sum of threshold - 127.5 over the cells k, k + 1, ..., size * size of
\* the matrix, counted row by row from 1, in units of 1/Scale.
RECURSIVE OffsetSumFrom(_, _)
OffsetSumFrom(bayerMatrix, k) ==
    LET size == Len(bayerMatrix)
    IN  IF k > size * size THEN 0
        ELSE Threshold(bayerMatrix, (k - 1) % size, (k - 1) \div size)
                 - ORDERED_THRESHOLD_CENTER + OffsetSumFrom(bayerMatrix, k + 1)

\* C24: for the matrix of an ordered run, whichever of the four it is, every
\* threshold lies strictly between 0 and 255 and the offsets threshold - 127.5
\* of one period of the matrix sum to zero.
C24_Centred ==
    method = "ordered" =>
        LET bayerMatrix == getBayerMatrix(matrixType)
            size == Len(bayerMatrix)
        IN  /\ \A cx, cy \in 0..(size - 1) :
                  /\ Threshold(bayerMatrix, cx, cy) > 0
                  /\ Threshold(bayerMatrix, cx, cy) < 255 * Scale
            /\ OffsetSumFrom(bayerMatrix, 1) = 0

(***************************************************************************)
(* Error diffusion, step by step.                                          *)
(***************************************************************************)
\* The raster index of the pixel the loop is at.
Here == y * width + x

\* The body of a diffusion loop has just run on the pixel at (x, y).
BodyRan ==
    /\ IsDiffusion /\ pc = "loop" /\ pc' = "loop"
    /\ y < height
    /\ << x', y' >> # << x, y >>

\* Channel c (1, 2, 3) of (original value + accumulated error - quantized
\* value) * strength for the pixel at (x, y), the quantized value being the
\* one the step stored.
ErrorOfStep(c) ==
    MulFrac(input[4 * Here + c] * Scale + errorBuffer[4 * Here + c]
                - data'[4 * Here + c] * Scale,
            strength, 2)

\* The targets of Floyd-Steinberg as << dx, dy, sixteenths >>.
FloydSteinbergTargets ==
    { << 1, 0, 7 >>, << 0 - 1, 1, 3 >>, << 0, 1, 5 >>, << 1, 1, 1 >> }

\* The parts (of `targets`) of the error that the pixel at (tx, ty) is to
\* receive from the pixel at (x, y): 0 when it is no target.
PartsFor(targets, tx, ty) ==
    IF \E t \in targets : x + t[1] = tx /\ y + t[2] = ty
    THEN (CHOOSE t \in targets : x + t[1] = tx /\ y + t[2] = ty)[3]
    ELSE 0

\* Channel c of the error buffer at the pixel (tx, ty) after a step that
\* adds `parts` / `whole` of the error there: the Float32Array keeps the
\* float nearest to the sum.
AfterAdding(tx, ty, c, parts, whole) ==
    Fround(errorBuffer[4 * (ty * width + tx) + c]
               + MulFrac(ErrorOfStep(c), parts, whole))

\* C25: a step of Floyd-Steinberg at (x, y) adds to the error of each pixel
\* of the grid its share of error = (original + accumulated - quantized) *
\* strength: 7/16 at (x+1, y), 3/16 at (x-1, y+1), 5/16 at (x, y+1), 1/16 at
\* (x+1, y+1) and nothing anywhere else, each sum stored as a float; when
\* the four targets are inside the grid the four shares are the whole error.
C25_FloydSteinbergShares ==
    [][ (BodyRan /\ method = "floyd-steinberg") =>
          /\ \A tx \in 0..(width - 1), ty \in 0..(height - 1), c \in 1..3 :
                errorBuffer'[4 * (ty * width + tx) + c] =
                    AfterAdding(tx, ty, c, PartsFor(FloydSteinbergTargets, tx, ty), 16)
          /\ \A px \in 0..(NumPixels - 1) : errorBuffer'[4 * px + 4] = errorBuffer[4 * px + 4]
          /\ (x >= 1 /\ x + 1 < width /\ y + 1 < height) =>
                \A c \in 1..3 :
                    MulFrac(ErrorOfStep(c), PartsFor(FloydSteinbergTargets, x + 1, y), 16)
                        + MulFrac(ErrorOfStep(c),
                                  PartsFor(FloydSteinbergTargets, x - 1, y + 1), 16)
                        + MulFrac(ErrorOfStep(c),
                                  PartsFor(FloydSteinbergTargets, x, y + 1), 16)
                        + MulFrac(ErrorOfStep(c),
                                  PartsFor(FloydSteinbergTargets, x + 1, y + 1), 16)
                    = ErrorOfStep(c) ]_vars

\* Floyd-Steinberg has processed the pixel at (1, 0) of a 3x2 grid: its four
\* targets (2,0), (0,1), (1,1) and (2,1) all hold error.
C25_Witness ==
    /\ method = "floyd-steinberg" /\ pc = "loop"
    /\ width = 3 /\ height = 2 /\ strength > 0
    /\ x = 2 /\ y = 0
    /\ \A px \in { 2, 3, 4, 5 } : errorBuffer[4 * px + 1] # 0

\* The targets of Atkinson as << dx, dy, eighths >>.
AtkinsonTargets ==
    { << 1, 0, 1 >>, << 2, 0, 1 >>, << 0 - 1, 1, 1 >>, << 0, 1, 1 >>, << 1, 1, 1 >>,
      << 0, 2, 1 >> }

\* C26: a step of Atkinson at (x, y) adds 1/8 of the strength-scaled error
\* to the error of each of (x+1, y), (x+2, y), (x-1, y+1), (x, y+1),
\* (x+1, y+1) and (x, y+2) that is inside the grid, and nothing anywhere
\* else, each sum stored as a float; when the six targets are inside the
\* grid the six shares are 6/8 of the error.
C26_AtkinsonShares ==
    [][ (BodyRan /\ method = "atkinson") =>
          /\ \A tx \in 0..(width - 1), ty \in 0..(height - 1), c \in 1..3 :
                errorBuffer'[4 * (ty * width + tx) + c] =
                    AfterAdding(tx, ty, c, PartsFor(AtkinsonTargets, tx, ty), 8)
          /\ \A px \in 0..(NumPixels - 1) : errorBuffer'[4 * px + 4] = 0
          /\ (x >= 1 /\ x + 2 < width /\ y + 2 < height) =>
                /\ \A t \in AtkinsonTargets :
                      PartsFor(AtkinsonTargets, x + t[1], y + t[2]) = 1
                /\ \A c \in 1..3 :
                      6 * MulFrac(ErrorOfStep(c), 1, 8) = MulFrac(ErrorOfStep(c), 6, 8) ]_vars

\* Atkinson has processed the pixel at (1, 0) of a 4x3 grid: its six targets
\* (2,0), (3,0), (0,1), (1,1), (2,1) and (1,2) all hold error.
C26_Witness ==
    /\ method = "atkinson" /\ pc = "loop"
    /\ width = 4 /\ height = 3 /\ strength > 0
    /\ x = 2 /\ y = 0
    /\ \A px \in { 2, 3, 4, 5, 6, 9 } : errorBuffer[4 * px + 1] # 0

\* The offsets << dx, dy >> at which the two ditherers call distributeError.
TargetOffsets ==
    { << 1, 0 >>, << 2, 0 >>, << 0 - 1, 1 >>, << 0, 1 >>, << 1, 1 >>, << 0, 2 >> }

\* C27: wherever a diffusion loop stands, distributeError called with the
\* error of the pixel at (x, y) for a target outside the grid returns the
\* error buffer as it was, and for a target inside changes at most the three
\* RGB entries of that target: nothing sent to column -1 reaches the last
\* pixel of the row above, and nothing sent to column width or width + 1
\* reaches the first pixels of the row below.
C27_OutsideDiscarded ==
    (IsDiffusion /\ InBody /\ paletteColors # << >>) =>
        LET quantError == QuantError(Query, findClosestPaletteColor(Query, paletteColors),
                                     strength)
            factor == IF method = "atkinson" THEN ATKINSON_COEFFICIENT ELSE FS_BOTTOM_LEFT
        IN  \A t \in TargetOffsets :
                LET tx == x + t[1]
                    ty == y + t[2]
                    after == distributeError(errorBuffer, tx, ty, quantError, factor,
                                             width, height)
                IN  IF tx < 0 \/ tx >= width \/ ty < 0 \/ ty >= height
                    THEN after = errorBuffer
                    ELSE /\ Len(after) = Len(errorBuffer)
                         /\ \A k \in 1..Len(errorBuffer) :
                               ((k - 1) \div 4 # ty * width + tx \/ k % 4 = 0)
                                   => after[k] = errorBuffer[k]

\* Floyd-Steinberg has processed the pixel at (0, 0) of a 3x2 grid: (1,0)
\* and (0,1) hold error, and (2,0), the last pixel of the row, where an
\* unchecked write for (-1, 1) would land, holds none.
C27_Witness ==
    /\ method = "floyd-steinberg" /\ pc = "loop"
    /\ width = 3 /\ height = 2
    /\ x = 1 /\ y = 0
    /\ errorBuffer[5] # 0
    /\ errorBuffer[13] # 0
    /\ errorBuffer[9] = 0

\* The buffer buf with the RGBA of every pixel behind pixel px set to 0.
Blanked(buf, px) == [k \in 1..Len(buf) |-> IF (k - 1) \div 4 > px THEN 0 ELSE buf[k]]

\* C28: in a diffusion run the pixels not yet processed hold their original
\* values; a step writes no error to the pixel it processes nor to any pixel
\* before it, so the error a pixel was quantized with never changes
\* afterwards; and the colour a pixel has in the returned buffer is the one
\* it gets when every pixel behind it is replaced by another: it depends on
\* the original values of the pixels up to its own only.
C28_ErrorGoesForward ==
    /\ [] ( (IsDiffusion /\ pc = "loop" /\ paletteColors # << >>) =>
               \A px \in 0..(NumPixels - 1) :
                   px >= Here => /\ RGBAt(data, px) = RGBAt(input, px)
                                 /\ data[4 * px + 4] = input[4 * px + 4] )
    /\ [] ( (IsDiffusion /\ pc = "returned") =>
               \A px \in 0..(NumPixels - 1) :
                   RGBAt(data, px) =
                       RGBAt(DiffuseInOrder(method, Blanked(input, px),
                                            RowMajor(width, height), width, height,
                                            strength, paletteColors), px) )
    /\ [][ BodyRan =>
             \A px \in 0..(NumPixels - 1), c \in 1..3 :
                 px <= Here => errorBuffer'[4 * px + c] = errorBuffer[4 * px + c] ]_vars

\* A run of full strength returned a buffer that differs from the flat
\* quantization of its input: error reached a later pixel and changed it.
C28_Witness ==
    /\ IsDiffusion /\ pc = "returned" /\ strength = 2
    /\ paletteColors # << >>
    /\ \E px \in 1..(NumPixels - 1) :
          RGBAt(data, px) # RGBAt(applyPalette(input, paletteColors), px)

(***************************************************************************)
(* The grid and the source image of pixelate.                              *)
(***************************************************************************)
\* C29: once pixelate has made its grid canvas, for a width that passed the
\* checks and an image of at least 1x1 pixels, the grid has at least one
\* column and one row, and the working buffer is not empty and holds
\* width * height * 4 bytes.
C29_GridNonEmpty ==
    (offscreenCanvas # NoOffscreen /\ originalImageObject.width >= 1
        /\ originalImageObject.height >= 1) =>
        /\ offscreenCanvas.width >= 1
        /\ offscreenCanvas.height >= 1
        /\ pixelatedData.data # << >>
        /\ Len(pixelatedData.data) = pixelatedData.width * pixelatedData.height * 4

\* C30: when pixelate has returned or thrown, the canvas or image it was
\* given (originalImageObject is that very object) holds the pixels it was
\* given with, and the canvas returned is another object than the source.
C30_SourceUntouched ==
    (stage \in { "done", "threw" } /\ options.image.kind \in { "canvas", "image" }
        /\ originalImageObject # NoImage) =>
        /\ originalImageObject.data = options.image.data
        /\ originalImageObject.width = options.image.width
        /\ originalImageObject.height = options.image.height
        /\ result.canvas # "originalImageObject"

(***************************************************************************)
(* Calls of pixelate side by side.                                         *)
(***************************************************************************)
\* The palette a call asked for, as pixelate holds it.
AskedPalette(o) ==
    IF o.palette.kind = "null" THEN NoPalette
    ELSE IF o.palette.kind = "array"
    THEN [isNull |-> FALSE, colors |-> MapHexToRgb(o.palette.hex)]
    ELSE [isNull |-> FALSE, colors |-> MapHexToRgb(Lospec[o.palette.name])]

\* The end of the call with options o when it runs alone, no other call
\* before or beside it, its fetch answered, and drawImage giving the grid
\* the pixels `read`.
Alone(o, read) ==
    RunToEnd([NewCall(o) EXCEPT !.originalImageObject = o.image,
                                !.paletteColors = AskedPalette(o)],
             read)

\* C21: however the steps of two calls on different images interleave, and
\* in whichever order their fetches are answered, a call that has resolved
\* its palette holds the palette it asked for, a call that returned
\* returned what it returns alone for the pixels it read, and a call
\* throws only when its own fetch failed.
C21_CallsIndependent ==
    \A k \in DOMAIN calls :
        /\ calls[k].stage \in { "resolved", "done" } =>
              calls[k].paletteColors = AskedPalette(calls[k].options)
        /\ calls[k].stage = "done" =>
              calls[k].result = Alone(calls[k].options, calls[k].read).result
        /\ calls[k].stage = "threw" => calls[k].thrown = "Palette not found"

\* Both calls returned, with different Lospec palettes, the second call's
\* fetch answered first: the cache holds the first call's palette.
C21_Witness ==
    /\ calls # << >>
    /\ \A k \in DOMAIN calls : calls[k].stage = "done"
    /\ calls[1].options.palette.kind = "name"
    /\ calls[2].options.palette.kind = "name"
    /\ calls[1].options.palette.name # calls[2].options.palette.name
    /\ cachedPalette.name = calls[1].options.palette.name
    /\ calls[1].result # calls[2].result

====
